---- MODULE Spec2Model ----
(***************************************************************************)
(* telliJASE: the AY-3-8914 register model (PSGChannel, PSGState), the     *)
(* frequency/period codec, and the way the main window and the audio       *)
(* callback use the live PSGState.                                         *)
(*                                                                         *)
(* Numbers.  Python ints are unbounded and are modelled by TLA+ integers.  *)
(* A frequency is a Python float; it is modelled by an exact rational      *)
(* <<n, d>> (n/d Hz, d > 0), so that period_to_frequency of a period p is  *)
(* exactly CLOCK_HZ / (32 p).  The binary rounding error of a float        *)
(* (relative 2^-53) is not modelled.                                       *)
(***************************************************************************)
EXTENDS Integers, Sequences, FiniteSets, TLC

(***************************************************************************)
(* Python integer operators                                                *)
(***************************************************************************)

\* a & b on Python ints (two's complement of unbounded width)
RECURSIVE BitAnd(_, _)
BitAnd(a, b) ==
    IF a = 0 \/ b = 0 THEN 0
    ELSE IF a = -1 THEN b
    ELSE IF b = -1 THEN a
    ELSE (a % 2) * (b % 2) + 2 * BitAnd(a \div 2, b \div 2)

\* a | b on Python ints
RECURSIVE BitOr(_, _)
BitOr(a, b) ==
    IF a = 0 THEN b
    ELSE IF b = 0 THEN a
    ELSE IF a = -1 \/ b = -1 THEN -1
    ELSE (IF a % 2 = 1 \/ b % 2 = 1 THEN 1 ELSE 0) + 2 * BitOr(a \div 2, b \div 2)

\* ~a on Python ints
BitNot(a) == -a - 1

\* a << k and a >> k on Python ints (k >= 0); >> rounds towards minus infinity
ShiftLeft(a, k) == a * (2 ^ k)
ShiftRight(a, k) == a \div (2 ^ k)

\* max(lo, min(hi, x)) on ints, the clamp idiom of the models
ClampInt(lo, hi, x) ==
    LET m == IF hi < x THEN hi ELSE x
    IN  IF lo > m THEN lo ELSE m

\* f"R{n}"
RegName(n) == "R" \o ToString(n)

(***************************************************************************)
(* Rationals standing for floats                                           *)
(***************************************************************************)

RECURSIVE Gcd(_, _)
Gcd(a, b) == IF b = 0 THEN a ELSE Gcd(b, a % b)

\* the rational n/d in lowest terms, d > 0
Rat(n, d) ==
    LET g == Gcd(IF n < 0 THEN -n ELSE n, d)
    IN  IF n = 0 THEN <<0, 1>> ELSE <<n \div g, d \div g>>

\* float(k) of an int
Hz(k) == <<k, 1>>

\* q < k and q > k for a rational q and an int k >= 0, without large products
RatLessInt(q, k) == q[1] \div q[2] < k
RatGreaterInt(q, k) ==
    \/ q[1] \div q[2] > k
    \/ q[1] \div q[2] = k /\ q[1] % q[2] # 0

\* round(n/d) for n >= 0, d > 0, as Python 3 rounds a float: ties to even
RoundHalfEven(n, d) ==
    LET q == n \div d
        r == n % d
    IN  IF 2 * r < d THEN q
        ELSE IF 2 * r > d THEN q + 1
        ELSE IF q % 2 = 0 THEN q ELSE q + 1

(***************************************************************************)
(* psg/utils.py: the frequency/period codec                                *)
(***************************************************************************)

CLOCK_HZ == 3579545
MIN_PERIOD == 1
MAX_PERIOD == 4095

\* period_to_frequency(period): CLOCK_HZ / (32.0 * period), 0.0 for period <= 0
period_to_frequency(period) ==
    IF period <= 0 THEN <<0, 1>>
    ELSE Rat(CLOCK_HZ, 32 * period)

\* frequency_to_period(freq): round(CLOCK_HZ / (32.0 * freq)) clamped to
\* [MIN_PERIOD, MAX_PERIOD]; MAX_PERIOD for freq <= 0.  The quotient
\* (CLOCK_HZ * d) / (32 * n) is formed with the common factors cancelled.
\* frequency_to_period with int() alone: the quotient truncated, not rounded
frequency_to_period_truncated(freq) ==
    IF freq[1] <= 0 THEN MAX_PERIOD
    ELSE ClampInt(MIN_PERIOD, MAX_PERIOD,
                  (CLOCK_HZ * freq[2]) \div (32 * freq[1]))

frequency_to_period(freq) ==
    IF freq[1] <= 0 THEN MAX_PERIOD
    ELSE LET g1 == Gcd(CLOCK_HZ, freq[1])
             g2 == Gcd(32, freq[2])
             num == (CLOCK_HZ \div g1) * (freq[2] \div g2)
             den == (32 \div g2) * (freq[1] \div g1)
             period == RoundHalfEven(num, den)
         IN  ClampInt(MIN_PERIOD, MAX_PERIOD, period)

(***************************************************************************)
(* models/psg_channel.py                                                   *)
(***************************************************************************)

FREQ_MIN == 27
FREQ_MAX == 20000
VOLUME_MAX == 15

\* max(27.0, min(20000.0, frequency))
ClampFrequency(f) ==
    IF RatGreaterInt(f, FREQ_MAX) THEN Hz(FREQ_MAX)
    ELSE IF RatLessInt(f, FREQ_MIN) THEN Hz(FREQ_MIN)
    ELSE f

\* PSGChannel(...): the dataclass constructor followed by __post_init__
PSGChannel(frequency, volume, tone_enabled, noise_enabled, envelope_mode) ==
    [frequency     |-> ClampFrequency(frequency),
     volume        |-> ClampInt(0, VOLUME_MAX, volume),
     tone_enabled  |-> tone_enabled,
     noise_enabled |-> noise_enabled,
     envelope_mode |-> envelope_mode]

\* PSGChannel(): the field defaults
DefaultChannel == PSGChannel(Hz(440), 12, TRUE, FALSE, FALSE)

\* a to_registers that puts the volume of channel i into R(8+i)
PSGChannel_to_registers_from_R8(ch, channel_index) ==
    LET period == frequency_to_period(ch.frequency)
        volume_byte == IF ch.envelope_mode THEN BitOr(BitAnd(ch.volume, 15), 16)
                       ELSE BitAnd(ch.volume, 15)
    IN  (RegName(channel_index * 2) :> BitAnd(period, 255))
        @@ (RegName(channel_index * 2 + 1) :> BitAnd(ShiftRight(period, 8), 15))
        @@ (RegName(8 + channel_index) :> volume_byte)

\* a to_registers that writes the volume field as it stands, without & 0x0F
PSGChannel_to_registers_unmasked(ch, channel_index) ==
    LET period == frequency_to_period(ch.frequency)
        volume_byte == IF ch.envelope_mode THEN BitOr(ch.volume, 16) ELSE ch.volume
    IN  (RegName(channel_index * 2) :> BitAnd(period, 255))
        @@ (RegName(channel_index * 2 + 1) :> BitAnd(ShiftRight(period, 8), 15))
        @@ (RegName(10 + channel_index) :> volume_byte)

\* PSGChannel.to_registers(channel_index)
PSGChannel_to_registers(ch, channel_index) ==
    LET period == frequency_to_period(ch.frequency)
        period_reg_base == channel_index * 2
        volume_reg == 10 + channel_index
        fine_reg == RegName(period_reg_base)
        coarse_reg == RegName(period_reg_base + 1)
        vol_reg == RegName(volume_reg)
        vb == BitAnd(ch.volume, 15)
        volume_byte == IF ch.envelope_mode THEN BitOr(vb, 16) ELSE vb
    IN  (fine_reg :> BitAnd(period, 255))
        @@ (coarse_reg :> BitAnd(ShiftRight(period, 8), 15))
        @@ (vol_reg :> volume_byte)

\* a from_registers that reads the period from the fine byte alone
PSGChannel_from_registers_fine_only(fine, coarse, volume_byte) ==
    LET period == fine
        frequency == period_to_frequency(period)
        volume == BitAnd(volume_byte, 15)
        envelope_mode == BitAnd(volume_byte, 16) # 0
    IN  PSGChannel(frequency, volume, TRUE, FALSE, envelope_mode)

\* PSGChannel.from_registers(fine, coarse, volume_byte); tone and noise keep
\* the field defaults until PSGState.from_registers overwrites them
PSGChannel_from_registers(fine, coarse, volume_byte) ==
    LET period == BitOr(ShiftLeft(BitAnd(coarse, 15), 8), fine)
        frequency == period_to_frequency(period)
        volume == BitAnd(volume_byte, 15)
        envelope_mode == BitAnd(volume_byte, 16) # 0
    IN  PSGChannel(frequency, volume, TRUE, FALSE, envelope_mode)

(***************************************************************************)
(* models/psg_state.py                                                     *)
(***************************************************************************)

NOISE_PERIOD_MAX == 31
ENVELOPE_PERIOD_MAX == 65535
ENVELOPE_SHAPE_MAX == 15

\* PSGState(...): the dataclass constructor followed by __post_init__.  The
\* channel fields hold whatever they are given: channel records in a state
\* taken by value, channel object ids in a state whose channels live in a heap.
PSGState(channel_a, channel_b, channel_c, noise_period, envelope_period, envelope_shape) ==
    [channel_a       |-> channel_a,
     channel_b       |-> channel_b,
     channel_c       |-> channel_c,
     noise_period    |-> ClampInt(0, NOISE_PERIOD_MAX, noise_period),
     envelope_period |-> ClampInt(0, ENVELOPE_PERIOD_MAX, envelope_period),
     envelope_shape  |-> ClampInt(0, ENVELOPE_SHAPE_MAX, envelope_shape)]

\* PSGState(): three default channels, noise_period 1, envelope fields 0
\* PSGState() with the field defaults of the dataclass: noise_period 1,
\* envelope_period 0, envelope_shape 0; the three channels are given.
PSGState_new(channel_a, channel_b, channel_c) ==
    PSGState(channel_a, channel_b, channel_c, 1, 0, 0)
DefaultState == PSGState_new(DefaultChannel, DefaultChannel, DefaultChannel)

Flag(b) == IF b THEN 1 ELSE 0

\* a mixer byte with active-high gates: 0xC0 with the bit of every enabled
\* gate set
MixerByte_active_high(s) ==
    192 + Flag(s.channel_a.tone_enabled) + 2 * Flag(s.channel_b.tone_enabled)
        + 4 * Flag(s.channel_c.tone_enabled) + 8 * Flag(s.channel_a.noise_enabled)
        + 16 * Flag(s.channel_b.noise_enabled) + 32 * Flag(s.channel_c.noise_enabled)

\* The mixer byte of PSGState.to_registers: 0xFF with the bit of every
\* enabled gate cleared (r7 &= ~mask)
MixerByte(s) ==
    LET r0 == 255
        r1 == IF s.channel_a.tone_enabled THEN BitAnd(r0, BitNot(1)) ELSE r0
        r2 == IF s.channel_b.tone_enabled THEN BitAnd(r1, BitNot(2)) ELSE r1
        r3 == IF s.channel_c.tone_enabled THEN BitAnd(r2, BitNot(4)) ELSE r2
        r4 == IF s.channel_a.noise_enabled THEN BitAnd(r3, BitNot(8)) ELSE r3
        r5 == IF s.channel_b.noise_enabled THEN BitAnd(r4, BitNot(16)) ELSE r4
        r6 == IF s.channel_c.noise_enabled THEN BitAnd(r5, BitNot(32)) ELSE r5
    IN  r6

\* PSGState.to_registers() of a state taken by value.  regs.update(x) and
\* regs[k] = v overwrite, so the later writer stands to the left of @@.
PSGState_to_registers(s) ==
    ("R15" :> BitAnd(s.envelope_shape, 15))
    @@ ("R14" :> BitAnd(ShiftRight(s.envelope_period, 8), 255))
    @@ ("R13" :> BitAnd(s.envelope_period, 255))
    @@ ("R6" :> BitAnd(s.noise_period, 31))
    @@ ("R7" :> MixerByte(s))
    @@ PSGChannel_to_registers(s.channel_c, 2)
    @@ PSGChannel_to_registers(s.channel_b, 1)
    @@ PSGChannel_to_registers(s.channel_a, 0)

\* registers.get(key): a missing key reads as 0 whatever the default
Get_zero(registers, key, default) ==
    IF key \in DOMAIN registers THEN registers[key] ELSE 0

\* registers.get(key, default)
Get(registers, key, default) ==
    IF key \in DOMAIN registers THEN registers[key] ELSE default

\* bool(r7 & mask): the gate read as active-high
GateEnabled_active_high(r7, mask) == BitAnd(r7, mask) # 0

\* not bool(r7 & mask)
GateEnabled(r7, mask) == BitAnd(r7, mask) = 0

\* PSGState.from_registers(registers), a state taken by value
PSGState_from_registers(registers) ==
    LET a == PSGChannel_from_registers(Get(registers, "R0", 0),
                 Get(registers, "R1", 0), Get(registers, "R10", 0))
        b == PSGChannel_from_registers(Get(registers, "R2", 0),
                 Get(registers, "R3", 0), Get(registers, "R11", 0))
        c == PSGChannel_from_registers(Get(registers, "R4", 0),
                 Get(registers, "R5", 0), Get(registers, "R12", 0))
        r7 == Get(registers, "R7", 255)
        channel_a == [a EXCEPT !.tone_enabled = GateEnabled(r7, 1),
                               !.noise_enabled = GateEnabled(r7, 8)]
        channel_b == [b EXCEPT !.tone_enabled = GateEnabled(r7, 2),
                               !.noise_enabled = GateEnabled(r7, 16)]
        channel_c == [c EXCEPT !.tone_enabled = GateEnabled(r7, 4),
                               !.noise_enabled = GateEnabled(r7, 32)]
        noise_period == BitAnd(Get(registers, "R6", 0), 31)
        envelope_period == BitOr(ShiftLeft(Get(registers, "R14", 0), 8),
                                 Get(registers, "R13", 0))
        envelope_shape == BitAnd(Get(registers, "R15", 0), 15)
    IN  PSGState(channel_a, channel_b, channel_c,
                 noise_period, envelope_period, envelope_shape)

(***************************************************************************)
(* State                                                                   *)
(***************************************************************************)

VARIABLES
    \* the main window and its audio driver
    current_state,  \* MainWindow.current_state: the id of a PSGState object
    psg_state,      \* audio_stream.psg_state: the id of the object the driver reads
    objs,           \* the heap of PSGState objects: id -> own fields, channel ids
    chan,           \* the heap of PSGChannel objects: id -> fields
    snap,           \* <<>>, or <<id>> of the object the last snapshot() returned
    ops,            \* how many operations have run (bounded by MaxOps)
    \* the register codec at work on one input
    st,        \* the PSGState given to to_registers()
    parts,     \* the three maps of channel_x.to_registers(0..2)
    regs,      \* the register map: produced by to_registers(), or given
    back,      \* the PSGState that from_registers(regs) returned
    rpc,       \* "state", "encoded", "roundtrip"; "map", "loaded", "resaved"
    saved,     \* the map back.to_registers() returned after a load
    \* the frequency/period codec at work on one frequency
    cf,        \* the frequency given, in whole Hz
    cperiod,   \* frequency_to_period(cf)
    crecon,    \* period_to_frequency(cperiod)
    cpc,       \* "input", "encoded", "decoded"
    \* FRAME playback on the control thread, the callback on the audio thread
    timeline_data,   \* MainWindow.timeline_data: track -> frame -> data
    current_frame,   \* MainWindow.current_frame
    is_playing,      \* MainWindow.is_playing
    playback_loop,   \* MainWindow.playback_loop
    timer_active,    \* playback_timer is running
    btn_frame_stop,  \* the Stop button is enabled
    stream,          \* LivePSGStream.stream is not None
    tick,            \* where the control thread is inside _advance_frame
    apc,             \* where the audio thread is inside _callback
    acopy,           \* the values snapshot() has read so far in _callback
    views,           \* what a snapshot taken between whole updates could be
    edits,           \* how many frame edits were made (bounded by MaxEdits)
    \* a PygamePSGPlayer, its update threads and the thread that calls it
    playing,         \* PygamePSGPlayer.playing
    stop_event,      \* PygamePSGPlayer.stop_event is set
    update_thread,   \* PygamePSGPlayer.update_thread: 0 for None, else a thread
    threads,         \* thread -> where it is inside _audio_update_loop
    ctl,             \* where the calling thread is inside start() or stop()
    starts,          \* how many threads start() has created (bounded by MaxStarts)
    \* a PSGSynthesizer and an AY38914Synth
    synth,           \* PSGSynthesizer: phase_a, phase_b, phase_c, lfsr, lfsr_output
    rb,              \* the last render_buffer call: arguments, synthesizer before, result
    renders,         \* how many render_buffer calls were made (bounded by MaxRenders)
    pv,              \* the last AY38914Synth.render call: arguments and result
    \* the project of the window and the project file
    project,         \* MainWindow.project: jam_sessions and songs
    file,            \* <<>> or <<the project file: its dict, and where it came from>>
    opened,          \* the last open_project: what it raised, what it loaded
    \* a ShadowState
    shadow,          \* ShadowState.registers
    upd,             \* the last update call: arguments, registers before, what it raised
    calls,           \* how many update calls were made (bounded by MaxUpdates)
    \* the two audio drivers as their caller sees them
    available,       \* PygamePSGPlayer.available and LivePSGStream.available
    last,            \* the last start() or stop() that returned, and what it returned
    \* one PSGState rendered in two buffers and in one
    split            \* the state, the two sample counts, the three results

liveVars == <<current_state, psg_state, objs, chan, snap, ops>>
regVars == <<st, parts, regs, back, rpc, saved>>
codecVars == <<cf, cperiod, crecon, cpc>>
audioVars == <<timeline_data, current_frame, is_playing, playback_loop,
               timer_active, btn_frame_stop, stream, tick, apc, acopy, views,
               edits>>

playerVars == <<playing, stop_event, update_thread, threads, ctl, starts>>
synthVars == <<synth, rb, renders, pv>>
storeVars == <<project, file, opened>>
shadowVars == <<shadow, upd, calls>>
driverVars == <<available, last>>
splitVars == <<split>>
moreVars == <<shadowVars, driverVars, splitVars>>
restVars == <<playerVars, synthVars, storeVars, moreVars>>

vars == <<liveVars, regVars, codecVars, audioVars, restVars>>

\* the PSGState object id of the heaps o (states) and c (channels), by value
View(o, c, id) ==
    [o[id] EXCEPT !.channel_a = c[o[id].channel_a],
                  !.channel_b = c[o[id].channel_b],
                  !.channel_c = c[o[id].channel_c]]

\* The values the variables of a part of the model keep while another part
\* is being explored
IdleLive ==
    /\ current_state = 1
    /\ psg_state = 1
    /\ objs = (1 :> PSGState_new(1, 2, 3))
    /\ chan = [i \in 1..3 |-> DefaultChannel]
    /\ snap = <<>>
    /\ ops = 0

IdleRegs ==
    /\ rpc = "idle" /\ st = DefaultState /\ regs = <<>>
    /\ parts = <<>> /\ back = DefaultState /\ saved = <<>>

IdleCodec ==
    /\ cpc = "idle" /\ cf = 0 /\ cperiod = 0 /\ crecon = <<0, 1>>

\* MainWindow.__init__: the timeline is empty and nothing plays
\* PygamePSGPlayer.__init__: not playing, no update thread, stop_event a fresh
\* Event (not set); no thread has been created and nobody is inside start()
\* or stop().
MaxStarts == 3
PlayerThreads == 1..MaxStarts
IdlePlayer ==
    /\ playing = FALSE
    /\ stop_event = FALSE
    /\ update_thread = 0
    /\ threads = [t \in PlayerThreads |-> "none"]
    /\ ctl = "idle"
    /\ starts = 0

\* PSGSynthesizer.__init__: the three tone phases, the LFSR and its output.
NewSynthesizer ==
    [phase_a |-> <<0, 1>>, phase_b |-> <<0, 1>>, phase_c |-> <<0, 1>>,
     lfsr |-> 1, lfsr_output |-> 1]

\* Before any call: no render_buffer call and no render call to speak of.
NoRender ==
    [num_samples |-> 0, state |-> DefaultState, before |-> NewSynthesizer,
     result |-> [raised |-> "none", out |-> <<>>]]
NoPreview == [called |-> FALSE, registers |-> <<>>, num_samples |-> 0, out |-> <<>>]
IdleSynth ==
    /\ synth = NewSynthesizer
    /\ rb = NoRender
    /\ renders = 0
    /\ pv = NoPreview

\* new_project(): a Project with no jam session and no song; no file has
\* been written and none has been opened.
NewProject == [jam_sessions |-> <<>>, songs |-> <<>>]
NotOpened == [done |-> FALSE, raised |-> "none", foreign |-> FALSE,
              data |-> NewProject, project |-> NewProject, saved |-> NewProject]
IdleStore ==
    /\ project = NewProject
    /\ file = <<>>
    /\ opened = NotOpened

\* ShadowState(): every register of _REGISTER_NAMES holds 0; update has not
\* been called.
REGISTER_NAMES == {RegName(n) : n \in 0..13}
ShadowState_new == [name \in REGISTER_NAMES |-> 0]
NoUpdate == [called |-> FALSE, kwargs |-> <<>>, before |-> ShadowState_new,
             raised |-> "none"]
IdleShadow ==
    /\ shadow = ShadowState_new
    /\ upd = NoUpdate
    /\ calls = 0

\* Both backends were imported and the mixer was initialised; no start() or
\* stop() has been called.
NoCall == [driver |-> "none", op |-> "none", returned |-> "none",
           was_playing |-> FALSE, created |-> FALSE]
IdleDriver ==
    /\ available = [pygame |-> TRUE, sounddevice |-> TRUE]
    /\ last = NoCall

\* No comparison of split and whole renders is under way.
NoSplit == [pc |-> "idle", state |-> DefaultState, n1 |-> 0, n2 |-> 0,
            first |-> <<>>, second |-> <<>>, whole |-> <<>>]
IdleSplit == split = NoSplit

IdleMore == IdleShadow /\ IdleDriver /\ IdleSplit

NoFrames == [f \in {} |-> 0]

IdleTick == [pc |-> "idle", stores |-> <<>>, done |-> 0, base |-> 0]
IdleAudio ==
    /\ timeline_data = [t \in {"A", "B", "C", "N", "E"} |-> NoFrames]
    /\ current_frame = 0
    /\ is_playing = FALSE
    /\ playback_loop = FALSE
    /\ timer_active = FALSE
    /\ btn_frame_stop = FALSE
    /\ stream = FALSE
    /\ tick = IdleTick
    /\ apc = 0
    /\ acopy = <<>>
    /\ views = {}
    /\ edits = 0

(***************************************************************************)
(* The register codec on bounded inputs                                    *)
(***************************************************************************)

\* storage/project_model.py REGISTER_KEYS: R0 .. R15
REGISTER_KEYS == {RegName(i) : i \in 0..15}

RegIndex(k) == CHOOSE i \in 0..15 : RegName(i) = k

\* Constructor arguments <<frequency, volume, envelope_mode>> of a channel;
\* the out-of-range ones are clamped by __post_init__
VoiceArgs ==
    {<<Hz(440), 12, FALSE>>, <<Hz(27), 0, TRUE>>, <<Hz(20000), 15, FALSE>>,
     <<Hz(30000), 20, TRUE>>, <<Hz(111), 7, TRUE>>, <<Hz(5), -3, FALSE>>}

OtherVoiceArgs ==
    {<<Hz(880), 10, FALSE>>, <<Hz(220), 8, TRUE>>, <<Hz(11775), 15, TRUE>>}

\* Constructor arguments <<noise_period, envelope_period, envelope_shape>>
SharedArgs ==
    {<<1, 0, 0>>, <<0, 1000, 10>>, <<15, 256, 1>>, <<31, 65535, 15>>,
     <<40, 70000, 20>>, <<-1, -1, -1>>}

\* The states PSGState(PSGChannel(...), PSGChannel(...), PSGChannel(...), ...)
\* builds from these arguments and from every setting of the six gates
ConstructedStates ==
    {PSGState(PSGChannel(va[1], va[2], g[1], g[4], va[3]),
              PSGChannel(vb[1], vb[2], g[2], g[5], vb[3]),
              PSGChannel(vc[1], vc[2], g[3], g[6], vc[3]),
              sh[1], sh[2], sh[3]) :
        va \in VoiceArgs, vb \in OtherVoiceArgs, vc \in OtherVoiceArgs,
        g \in [1..6 -> BOOLEAN], sh \in SharedArgs}

\* Register maps that arrive from outside (a saved session, a caller's dict):
\* byte values under all, some or none of the keys, and keys that are no
\* register of the chip
BaseMaps ==
    {[k \in REGISTER_KEYS |-> 0],
     [k \in REGISTER_KEYS |-> 255],
     [k \in REGISTER_KEYS |-> 90],
     [k \in REGISTER_KEYS |-> (37 * RegIndex(k) + 11) % 256]}

KeySets ==
    {{}, REGISTER_KEYS, REGISTER_KEYS \cup {"R16", "foo"}, {"R99"}}
    \cup {REGISTER_KEYS \ {k} : k \in REGISTER_KEYS}
    \cup {{k} : k \in REGISTER_KEYS}

ExternalMaps ==
    {[k \in ks |-> IF k \in REGISTER_KEYS THEN m[k] ELSE 7] :
        m \in BaseMaps, ks \in KeySets}

InitRegs ==
    /\ \/ rpc = "state" /\ st \in ConstructedStates /\ regs = <<>>
       \/ rpc = "map" /\ st = DefaultState /\ regs \in ExternalMaps
    /\ parts = <<>>
    /\ back = DefaultState
    /\ saved = <<>>
    /\ IdleLive /\ IdleCodec /\ IdleAudio /\ IdlePlayer /\ IdleSynth /\ IdleStore /\ IdleMore

\* regs = st.to_registers()
ToRegisters ==
    /\ rpc = "state"
    /\ parts' = <<PSGChannel_to_registers(st.channel_a, 0),
                  PSGChannel_to_registers(st.channel_b, 1),
                  PSGChannel_to_registers(st.channel_c, 2)>>
    /\ regs' = PSGState_to_registers(st)
    /\ rpc' = "encoded"
    /\ UNCHANGED <<st, back, saved, liveVars, codecVars, audioVars, restVars>>

\* back = PSGState.from_registers(regs)
FromRegisters ==
    /\ rpc \in {"encoded", "map"}
    /\ back' = PSGState_from_registers(regs)
    /\ rpc' = IF rpc = "encoded" THEN "roundtrip" ELSE "loaded"
    /\ UNCHANGED <<st, parts, regs, saved, liveVars, codecVars, audioVars, restVars>>

NextRegs == ToRegisters \/ FromRegisters

SpecRegs == InitRegs /\ [][NextRegs]_vars

(***************************************************************************)
(* Properties of the register codec, under SpecRegs                        *)
(***************************************************************************)

Bit(x, i) == (x \div (2 ^ i)) % 2

Encoded == rpc \in {"encoded", "roundtrip"}

\* C2: to_registers() returns a map whose key set is exactly R0 .. R15,
\* sixteen entries, none missing and none extra.
C2_SixteenKeys ==
    Encoded =>
        /\ DOMAIN regs = {"R0", "R1", "R2", "R3", "R4", "R5", "R6", "R7", "R8",
                          "R9", "R10", "R11", "R12", "R13", "R14", "R15"}
        /\ Cardinality(DOMAIN regs) = 16

\* C3: R7 is 0xFF with bit0/bit1/bit2 cleared iff the tone of A/B/C is
\* enabled and bit3/bit4/bit5 cleared iff the noise of A/B/C is enabled;
\* bits 6 and 7 are 1, R7 is a byte, and with only the tone of A enabled
\* R7 = 0xFE.
C3_MixerByte ==
    Encoded =>
        LET r7 == regs["R7"]
            a == st.channel_a
            b == st.channel_b
            c == st.channel_c
        IN  /\ r7 \in 0..255
            /\ r7 = 255 - Flag(a.tone_enabled) - 2 * Flag(b.tone_enabled)
                        - 4 * Flag(c.tone_enabled) - 8 * Flag(a.noise_enabled)
                        - 16 * Flag(b.noise_enabled) - 32 * Flag(c.noise_enabled)
            /\ Bit(r7, 6) = 1 /\ Bit(r7, 7) = 1
            /\ (a.tone_enabled /\ ~b.tone_enabled /\ ~c.tone_enabled
                /\ ~a.noise_enabled /\ ~b.noise_enabled /\ ~c.noise_enabled)
               => r7 = 254

\* C3 witness: a state with only the tone of A enabled has been encoded, and
\* so has one with the noise of B and C and the tone of C enabled
C3_Witness ==
    /\ Encoded
    /\ st.channel_a.tone_enabled /\ ~st.channel_b.tone_enabled
    /\ ~st.channel_c.tone_enabled /\ ~st.channel_a.noise_enabled
    /\ ~st.channel_b.noise_enabled /\ ~st.channel_c.noise_enabled
    /\ regs["R7"] = 254

\* The channel map the claim C4 describes for channel index i
ExpectedChannelMap(ch, fine, coarse, vol) ==
    LET p == frequency_to_period(ch.frequency)
    IN  (fine :> p % 256)
        @@ (coarse :> (p \div 256) % 16)
        @@ (vol :> (ch.volume % 16) + (IF ch.envelope_mode THEN 16 ELSE 0))

ExactFields(ch) ==
    <<ch.volume, ch.tone_enabled, ch.noise_enabled, ch.envelope_mode>>

\* C7: from_registers(state.to_registers()) has for each channel the volume,
\* tone_enabled, noise_enabled and envelope_mode of the original, and its
\* noise_period, envelope_period and envelope_shape.
C7_RoundTripExact ==
    rpc = "roundtrip" =>
        /\ ExactFields(back.channel_a) = ExactFields(st.channel_a)
        /\ ExactFields(back.channel_b) = ExactFields(st.channel_b)
        /\ ExactFields(back.channel_c) = ExactFields(st.channel_c)
        /\ back.noise_period = st.noise_period
        /\ back.envelope_period = st.envelope_period
        /\ back.envelope_shape = st.envelope_shape

\* C7 witness: a round trip of a state that differs from the defaults in
\* every field the claim names
C7_Witness ==
    /\ rpc = "roundtrip"
    /\ st.channel_a.volume = 15 /\ ~st.channel_a.tone_enabled
    /\ st.channel_b.noise_enabled /\ st.channel_c.envelope_mode
    /\ st.noise_period = 31 /\ st.envelope_period = 65535
    /\ st.envelope_shape = 15
    /\ back.envelope_period = 65535 /\ back.channel_b.noise_enabled

\* regs with the unknown keys dropped and every missing register filled in:
\* 0xFF for R7, 0 for the others
Fill(m) ==
    [k \in {"R0", "R1", "R2", "R3", "R4", "R5", "R6", "R7", "R8", "R9", "R10",
            "R11", "R12", "R13", "R14", "R15"} |->
        IF k \in DOMAIN m THEN m[k] ELSE IF k = "R7" THEN 255 ELSE 0]

\* what a channel decoded from bytes fine, coarse, vol and the mixer bits is
DecodedChannel(ch, fine, coarse, vol, r7, tone_bit, noise_bit) ==
    /\ ch.volume = vol % 16
    /\ ch.envelope_mode = (Bit(vol, 4) = 1)
    /\ ch.tone_enabled = (Bit(r7, tone_bit) = 0)
    /\ ch.noise_enabled = (Bit(r7, noise_bit) = 0)
    /\ ch.frequency = ClampFrequency(
           period_to_frequency((coarse % 16) * 256 + fine))

InRangeChannel(ch) ==
    /\ ~RatLessInt(ch.frequency, 27) /\ ~RatGreaterInt(ch.frequency, 20000)
    /\ ch.volume \in 0..15

InRangeState(s) ==
    /\ InRangeChannel(s.channel_a)
    /\ InRangeChannel(s.channel_b)
    /\ InRangeChannel(s.channel_c)
    /\ s.noise_period \in 0..31
    /\ s.envelope_period \in 0..65535
    /\ s.envelope_shape \in 0..15

Silent(ch) == ~ch.tone_enabled /\ ~ch.noise_enabled /\ ch.volume = 0

\* C8: from_registers accepts a map with missing or unknown keys: unknown
\* keys are ignored, a missing R7 is read as 0xFF, every other missing
\* register as 0; the empty map gives three channels with tone and noise
\* disabled and volume 0, noise_period = envelope_period = envelope_shape = 0,
\* and every field inside its clamped range.
C8_LenientDefaults ==
    rpc = "loaded" =>
        LET m == Fill(regs)
        IN  /\ DecodedChannel(back.channel_a, m["R0"], m["R1"], m["R10"], m["R7"], 0, 3)
            /\ DecodedChannel(back.channel_b, m["R2"], m["R3"], m["R11"], m["R7"], 1, 4)
            /\ DecodedChannel(back.channel_c, m["R4"], m["R5"], m["R12"], m["R7"], 2, 5)
            /\ back.noise_period = m["R6"] % 32
            /\ back.envelope_period = m["R14"] * 256 + m["R13"]
            /\ back.envelope_shape = m["R15"] % 16
            /\ InRangeState(back)
            /\ regs = <<>> =>
                 /\ Silent(back.channel_a) /\ Silent(back.channel_b)
                 /\ Silent(back.channel_c)
                 /\ back.noise_period = 0 /\ back.envelope_period = 0
                 /\ back.envelope_shape = 0

\* C8 witness: the empty map has been loaded
C8_Witness ==
    /\ rpc = "loaded" /\ regs = <<>>
    /\ Silent(back.channel_a) /\ back.channel_a.frequency = Hz(27)

(***************************************************************************)
(* The frequency/period codec on every whole frequency a channel can hold  *)
(***************************************************************************)

InitCodec ==
    /\ cpc = "input"
    /\ cf \in FREQ_MIN..FREQ_MAX
    /\ cperiod = 0
    /\ crecon = <<0, 1>>
    /\ IdleLive /\ IdleRegs /\ IdleAudio /\ IdlePlayer /\ IdleSynth /\ IdleStore /\ IdleMore

\* period = frequency_to_period(freq)
Encode ==
    /\ cpc = "input"
    /\ cperiod' = frequency_to_period(Hz(cf))
    /\ cpc' = "encoded"
    /\ UNCHANGED <<cf, crecon, liveVars, regVars, audioVars, restVars>>

\* recon = period_to_frequency(period)
Decode ==
    /\ cpc = "encoded"
    /\ crecon' = period_to_frequency(cperiod)
    /\ cpc' = "decoded"
    /\ UNCHANGED <<cf, cperiod, liveVars, regVars, audioVars, restVars>>

NextCodec == Encode \/ Decode

SpecCodec == InitCodec /\ [][NextCodec]_vars

\* |q - f| * 100 < pct * f for a rational q = <<n, d>> and a whole f
WithinPercent(q, f, pct) ==
    LET diff == q[1] - f * q[2]
        abs == IF diff < 0 THEN -diff ELSE diff
    IN  abs * 100 < pct * f * q[2]

\* C6 as claimed: for every f in [27, 20000],
\* period_to_frequency(frequency_to_period(f)) differs from f by less than
\* 5% of f.
C6_RoundTripWithin5 ==
    cpc = "decoded" => WithinPercent(crecon, cf, 5)

\* C6 as amended: the round trip differs from f by less than 5% of f for
\* every f in [27, 11774], and by less than 9% of f for every f in
\* [27, 20000].
C6_RoundTripBounded ==
    cpc = "decoded" =>
        /\ cf <= 11774 => WithinPercent(crecon, cf, 5)
        /\ WithinPercent(crecon, cf, 9)

\* C6 witness: 11774 Hz, the last whole frequency of the 5% band, has made
\* the round trip through period 10
C6_Witness ==
    /\ cpc = "decoded" /\ cf = 11774 /\ cperiod = 10
    /\ crecon = Rat(3579545, 320)

(***************************************************************************)
(* The live PSGState of the main window: the JAM controls, direct          *)
(* attribute assignment, snapshot()                                        *)
(***************************************************************************)

MaxOps == 3

\* ui/jam_controls.py: the initial slider values of the three ChannelControls
\* (power chord 110/220/330 Hz, volume 4, tone on, noise off)
InitialControl(idx) ==
    [frequency |-> <<110, 220, 330>>[idx], volume |-> 4,
     tone_enabled |-> TRUE, noise_enabled |-> FALSE]

\* MainWindow.__init__: current_state = PSGState(), the audio driver is given
\* that object, _connect_signals binds the handlers of control idx to its
\* channel object, and _initialize_jam_controls has every control emit its
\* state into that channel
InitWindow ==
    /\ current_state = 1
    /\ psg_state = 1
    /\ objs = (1 :> PSGState_new(1, 2, 3))
    /\ chan = [i \in 1..3 |->
                 [DefaultChannel EXCEPT
                    !.frequency = Hz(InitialControl(i).frequency),
                    !.volume = InitialControl(i).volume,
                    !.tone_enabled = InitialControl(i).tone_enabled,
                    !.noise_enabled = InitialControl(i).noise_enabled]]
    /\ snap = <<>>

Init ==
    /\ InitWindow
    /\ ops = 0
    /\ IdleRegs /\ IdleCodec /\ IdleAudio /\ IdlePlayer /\ IdleSynth /\ IdleStore /\ IdleMore

\* the channel object the handlers of control idx were bound to
HandlerChannel(idx) == idx

\* Values the widgets can emit: the sliders span 27..2000 Hz, 0..15 and 0..31
SliderFrequencies == {27, 2000}
SliderVolumes == {0, 15}
NoiseSliderValues == {0, 31}
\* Numbers typed into the noise period box
NoiseInputs == {-5, 40}
\* Values a caller assigns to a field directly
AssignedFrequencies == {Hz(0), Hz(1000000)}
AssignedInts == {-1, 70000}
\* Values assigned through a snapshot
SnapshotInts == {5}

Step == ops < MaxOps /\ ops' = ops + 1

\* obj.field = value on a PSGChannel: a plain dataclass attribute store
SetChannelField(id, field, value) ==
    chan' = [chan EXCEPT ![id][field] = value]

\* obj.field = value on a PSGState
SetStateField(id, field, value) ==
    objs' = [objs EXCEPT ![id][field] = value]

\* the channel objects of the PSGState object id
ChannelsOf(o, id) == {o[id].channel_a, o[id].channel_b, o[id].channel_c}

\* MainWindow._update_channel_param(channel, param_name, value)
UpdateChannelParam(channel, param_name, value) ==
    /\ Step
    /\ SetChannelField(channel, param_name, value)
    /\ UNCHANGED <<current_state, psg_state, objs, snap, regVars, codecVars, audioVars, restVars>>

\* A ChannelControl signal reaches the handler bound to its channel object
ChannelControlSignal ==
    \E idx \in 1..3 :
        \/ \E v \in SliderFrequencies :
              UpdateChannelParam(HandlerChannel(idx), "frequency", Hz(v))
        \/ \E v \in SliderVolumes :
              UpdateChannelParam(HandlerChannel(idx), "volume", v)
        \/ \E b \in BOOLEAN :
              UpdateChannelParam(HandlerChannel(idx), "tone_enabled", b)
        \/ \E b \in BOOLEAN :
              UpdateChannelParam(HandlerChannel(idx), "noise_enabled", b)

\* MainWindow._on_noise_slider_changed(value)
OnNoiseSliderChanged ==
    \E value \in NoiseSliderValues :
        /\ Step
        /\ SetStateField(current_state, "noise_period", value)
        /\ UNCHANGED <<current_state, psg_state, chan, snap, regVars, codecVars, audioVars, restVars>>

\* MainWindow._on_noise_input_changed(): the typed number, clamped to 0..31
OnNoiseInputChanged ==
    \E typed \in NoiseInputs :
        /\ Step
        /\ SetStateField(current_state, "noise_period", ClampInt(0, 31, typed))
        /\ UNCHANGED <<current_state, psg_state, chan, snap, regVars, codecVars, audioVars, restVars>>

\* state.channel_x.field = value, written by a caller of the model
AssignChannelField ==
    \E id \in ChannelsOf(objs, current_state) :
        /\ Step
        /\ \/ \E f \in AssignedFrequencies : SetChannelField(id, "frequency", f)
           \/ \E v \in AssignedInts : SetChannelField(id, "volume", v)
           \/ \E b \in BOOLEAN : SetChannelField(id, "envelope_mode", b)
        /\ UNCHANGED <<current_state, psg_state, objs, snap, regVars, codecVars, audioVars, restVars>>

\* state.field = value, written by a caller of the model
AssignStateField ==
    \E field \in {"noise_period", "envelope_period", "envelope_shape"} :
        \E v \in AssignedInts :
            /\ Step
            /\ SetStateField(current_state, field, v)
            /\ UNCHANGED <<current_state, psg_state, chan, snap, regVars, codecVars, audioVars, restVars>>

\* the n smallest ids from `from` on that are no object of the heap h
RECURSIVE FreshIds(_, _, _)
FreshIds(h, n, from) ==
    IF n = 0 THEN <<>>
    ELSE IF from \in DOMAIN h THEN FreshIds(h, n, from + 1)
    ELSE <<from>> \o FreshIds(h, n - 1, from + 1)

\* The attribute reads of snapshot(), in the order they happen:
\* replace(self.channel_a) reads the five fields of channel A, then the same
\* for B and C, then replace(self, ...) reads the three own fields
SnapshotReads ==
    <<<<"channel_a", "frequency">>, <<"channel_a", "volume">>,
      <<"channel_a", "tone_enabled">>, <<"channel_a", "noise_enabled">>,
      <<"channel_a", "envelope_mode">>,
      <<"channel_b", "frequency">>, <<"channel_b", "volume">>,
      <<"channel_b", "tone_enabled">>, <<"channel_b", "noise_enabled">>,
      <<"channel_b", "envelope_mode">>,
      <<"channel_c", "frequency">>, <<"channel_c", "volume">>,
      <<"channel_c", "tone_enabled">>, <<"channel_c", "noise_enabled">>,
      <<"channel_c", "envelope_mode">>,
      <<"self", "noise_period">>, <<"self", "envelope_period">>,
      <<"self", "envelope_shape">>>>

\* the value read i of snapshot() finds in the object id
ReadField(o, c, id, i) ==
    LET r == SnapshotReads[i]
    IN  IF r[1] = "self" THEN o[id][r[2]] ELSE c[o[id][r[1]]][r[2]]

\* The objects snapshot() builds from the values v it has read: three new
\* PSGChannel objects and a new PSGState, each through __init__ and
\* __post_init__
BuildSnapshot(o, c, v) ==
    LET ids == FreshIds(c, 3, 1)
        nid == FreshIds(o, 1, 1)[1]
    IN  [id   |-> nid,
         objs |-> (nid :> PSGState(ids[1], ids[2], ids[3], v[16], v[17], v[18]))
                  @@ o,
         chan |-> (ids[1] :> PSGChannel(v[1], v[2], v[3], v[4], v[5]))
                  @@ (ids[2] :> PSGChannel(v[6], v[7], v[8], v[9], v[10]))
                  @@ (ids[3] :> PSGChannel(v[11], v[12], v[13], v[14], v[15]))
                  @@ c]

\* replace(self) alone: a new PSGState that keeps the channel objects of the
\* original
snapshot_shallow(o, c, id) ==
    LET nid == FreshIds(o, 1, 1)[1]
    IN  [id   |-> nid,
         objs |-> (nid :> PSGState(o[id].channel_a, o[id].channel_b, o[id].channel_c,
                                   o[id].noise_period, o[id].envelope_period,
                                   o[id].envelope_shape)) @@ o,
         chan |-> c]

\* PSGState.snapshot() of the object id, run without interruption
snapshot(o, c, id) ==
    BuildSnapshot(o, c, [i \in 1..18 |-> ReadField(o, c, id, i)])

\* The heaps without the objects nothing refers to any more.  The driver
\* keeps psg_state, the handlers keep the channels they were bound to.
KeptStates(keep) == {current_state, psg_state} \cup keep
CollectStates(keep) == [i \in KeptStates(keep) |-> objs[i]]
CollectChannels(keep) ==
    [i \in {HandlerChannel(idx) : idx \in 1..3}
           \cup UNION {ChannelsOf(objs, k) : k \in KeptStates(keep)} |-> chan[i]]

\* s = state.snapshot(); the snapshot held before is dropped
TakeSnapshot ==
    /\ Step
    /\ LET r == snapshot(CollectStates({}), CollectChannels({}), current_state)
       IN  /\ snap' = <<r.id>>
           /\ objs' = r.objs
           /\ chan' = r.chan
    /\ UNCHANGED <<current_state, psg_state, regVars, codecVars, audioVars, restVars>>

\* s.channel_x.field = value
AssignSnapshotChannelField ==
    /\ snap # <<>>
    /\ \E id \in ChannelsOf(objs, snap[1]) :
        /\ Step
        /\ \/ \E v \in SnapshotInts : SetChannelField(id, "volume", v)
           \/ \E v \in SnapshotInts : SetChannelField(id, "frequency", Hz(100 * v))
        /\ UNCHANGED <<current_state, psg_state, objs, snap, regVars, codecVars, audioVars, restVars>>

\* s.field = value
AssignSnapshotField ==
    /\ snap # <<>>
    /\ \E field \in {"noise_period", "envelope_shape"} :
        \E v \in SnapshotInts :
            /\ Step
            /\ SetStateField(snap[1], field, v)
            /\ UNCHANGED <<current_state, psg_state, chan, snap, regVars, codecVars, audioVars, restVars>>

LiveAssignment ==
    \/ ChannelControlSignal
    \/ OnNoiseSliderChanged
    \/ OnNoiseInputChanged
    \/ AssignChannelField
    \/ AssignStateField

SnapshotAssignment ==
    \/ AssignSnapshotChannelField
    \/ AssignSnapshotField

Next ==
    \/ ChannelControlSignal
    \/ OnNoiseSliderChanged
    \/ OnNoiseInputChanged
    \/ AssignChannelField
    \/ AssignStateField
    \/ TakeSnapshot
    \/ AssignSnapshotChannelField
    \/ AssignSnapshotField

Spec == Init /\ [][Next]_vars

LiveView == View(objs, chan, current_state)
SnapView == View(objs, chan, snap[1])

\* C1: in every reachable state every PSGChannel has 27 <= frequency <= 20000
\* and 0 <= volume <= 15, and every PSGState has 0 <= noise_period <= 31,
\* 0 <= envelope_period <= 65535 and 0 <= envelope_shape <= 15.
C1_AlwaysClamped ==
    /\ \A id \in DOMAIN chan : InRangeChannel(chan[id])
    /\ \A id \in DOMAIN objs : InRangeState(View(objs, chan, id))

RegistersAreBytes(r) ==
    /\ \A k \in DOMAIN r : r[k] \in 0..255
    /\ r["R1"] <= 15 /\ r["R3"] <= 15 /\ r["R5"] <= 15
    /\ r["R6"] <= 31
    /\ r["R15"] <= 15
    /\ r["R10"] <= 31 /\ r["R11"] <= 31 /\ r["R12"] <= 31

\* C5: for every PSGState reachable by construction and field assignment,
\* out-of-range and negative integers included, every value of
\* to_registers() is an integer in 0..255, the coarse period registers
\* R1/R3/R5 are <= 15, R6 <= 31, R15 <= 15 and each volume byte <= 31.
C5_RegistersAreBytes ==
    \A id \in DOMAIN objs :
        RegistersAreBytes(PSGState_to_registers(View(objs, chan, id)))

\* C5 witness: negative and oversized integers have been assigned, and the
\* registers hold their low bits
C5_Witness ==
    /\ LiveView.channel_a.volume = 70000
    /\ LiveView.envelope_period = -1
    /\ LiveView.noise_period = 70000
    /\ PSGState_to_registers(LiveView)["R10"] = 0
    /\ PSGState_to_registers(LiveView)["R14"] = 255
    /\ PSGState_to_registers(LiveView)["R6"] = 16

\* C9: after s = state.snapshot(), assignments to the live state's fields or
\* to the fields of its channels leave every field seen through s unchanged,
\* and assignments through s leave the live state unchanged.
C9_SnapshotIndependent ==
    [][/\ (LiveAssignment /\ snap # <<>>) => SnapView' = SnapView
       /\ SnapshotAssignment => LiveView' = LiveView]_vars

\* C9 witness: a snapshot was taken, then the live channel A was moved to
\* 2000 Hz and the snapshot's volume of A set to 5; each side kept its own
C9_Witness ==
    /\ snap # <<>>
    /\ LiveView.channel_a.frequency = Hz(2000)
    /\ SnapView.channel_a.frequency = Hz(110)
    /\ SnapView.channel_a.volume = 5
    /\ LiveView.channel_a.volume = 4

(***************************************************************************)
(* FRAME playback: the control thread runs the Qt handlers and the         *)
(* sequencer tick, the audio thread runs LivePSGStream._callback.  The     *)
(* threads interleave between attribute reads and attribute stores.  The   *)
(* sounddevice backend is present and its device opens.                    *)
(***************************************************************************)

MaxFrame == 1
MaxEdits == 1

\* the keys of timeline_data, in the order the dict holds them
TrackIds == <<"A", "B", "C", "N", "E">>

\* MainWindow._track_index_to_channel_id
track_index_to_channel_id(track_index) == TrackIds[track_index + 1]

\* Values set in the frame editor before Apply is pressed
EditorFrequencies == {880}
EditorVolumes == {9}
EditorToneEnabled == {TRUE}
EditorNoiseEnabled == {TRUE}

\* FrameEditor._on_apply_clicked: the data dict of a frame.  A key whose
\* value is None is left out: every reader uses data.get(key) is not None.
\* The duration is read by no part of the playback.
EditorData(track_index) ==
    IF track_index < 3
    THEN {[frequency |-> f, volume |-> v, tone_enabled |-> t, noise_enabled |-> n] :
            f \in EditorFrequencies, v \in EditorVolumes,
            t \in EditorToneEnabled, n \in EditorNoiseEnabled}
    ELSE {[volume |-> v] : v \in EditorVolumes}

\* the control thread is between handlers
ControlIdle == tick.pc = "idle"

\* MainWindow._on_frame_applied(track_index, frame_number, data)
OnFrameApplied ==
    \E track_index \in 0..4, frame_number \in 0..MaxFrame :
        \E data \in EditorData(track_index) :
            LET channel_id == track_index_to_channel_id(track_index)
            IN  /\ ControlIdle
                /\ edits < MaxEdits
                /\ edits' = edits + 1
                /\ timeline_data' =
                      [timeline_data EXCEPT ![channel_id] =
                          [f \in DOMAIN @ \cup {frame_number} |->
                              IF f = frame_number THEN data ELSE @[f]]]
                /\ UNCHANGED <<liveVars, regVars, codecVars, current_frame,
                               is_playing, playback_loop, timer_active,
                               btn_frame_stop, stream, tick, apc, acopy, views, restVars>>

\* MainWindow._on_frame_cleared(track_index, frame_number)
OnFrameCleared ==
    \E track_index \in 0..4, frame_number \in 0..MaxFrame :
        LET channel_id == track_index_to_channel_id(track_index)
        IN  /\ ControlIdle
            /\ edits < MaxEdits
            /\ edits' = edits + 1
            /\ timeline_data' =
                  IF frame_number \in DOMAIN timeline_data[channel_id]
                  THEN [timeline_data EXCEPT ![channel_id] =
                          [f \in DOMAIN @ \ {frame_number} |-> @[f]]]
                  ELSE timeline_data
            /\ UNCHANGED <<liveVars, regVars, codecVars, current_frame,
                           is_playing, playback_loop, timer_active,
                           btn_frame_stop, stream, tick, apc, acopy, views, restVars>>

\* MainWindow._on_frame_loop_toggled(checked)
OnFrameLoopToggled ==
    /\ ControlIdle
    /\ playback_loop' = ~playback_loop
    /\ UNCHANGED <<liveVars, regVars, codecVars, timeline_data, current_frame,
                   is_playing, timer_active, btn_frame_stop, stream, tick, apc,
                   acopy, views, edits, restVars>>

\* MainWindow._on_frame_play, behind the enabled Play button:
\* audio_stream.start() opens the stream (or finds it open), then
\* _start_frame_playback starts the 60 Hz timer
OnFramePlay ==
    /\ ControlIdle
    /\ ~is_playing
    /\ stream' = TRUE
    /\ timer_active' = TRUE
    /\ is_playing' = TRUE
    /\ btn_frame_stop' = TRUE
    /\ UNCHANGED <<liveVars, regVars, codecVars, timeline_data, current_frame,
                   playback_loop, tick, apc, acopy, views, edits, restVars>>

\* MainWindow._on_frame_pause, behind the enabled Pause button
OnFramePause ==
    /\ ControlIdle
    /\ is_playing
    /\ timer_active' = FALSE
    /\ is_playing' = FALSE
    /\ UNCHANGED <<liveVars, regVars, codecVars, timeline_data, current_frame,
                   playback_loop, btn_frame_stop, stream, tick, apc, acopy,
                   views, edits, restVars>>

\* The body of MainWindow._on_frame_stop: the timer stops, the stream is
\* stopped and closed (stream.stop() returns once no callback is running),
\* the frame counter is reset and current_state becomes a new PSGState()
\* object.  The driver keeps the object it was constructed with.
FrameStop ==
    /\ stream => apc = 0
    /\ timer_active' = FALSE
    /\ stream' = FALSE
    /\ is_playing' = FALSE
    /\ current_frame' = 0
    /\ btn_frame_stop' = FALSE
    /\ LET o == [i \in {psg_state} |-> objs[i]]
           c == [i \in {HandlerChannel(idx) : idx \in 1..3}
                       \cup ChannelsOf(objs, psg_state) |-> chan[i]]
           ids == FreshIds(c, 3, 1)
           nid == FreshIds(o, 1, 1)[1]
       IN  /\ current_state' = nid
           /\ objs' = (nid :> PSGState_new(ids[1], ids[2], ids[3])) @@ o
           /\ chan' = (ids[1] :> DefaultChannel) @@ (ids[2] :> DefaultChannel)
                      @@ (ids[3] :> DefaultChannel) @@ c
    /\ UNCHANGED <<psg_state, snap, ops, restVars>>

\* MainWindow._on_frame_stop, behind the enabled Stop button
OnFrameStop ==
    /\ ControlIdle
    /\ btn_frame_stop
    /\ FrameStop
    /\ UNCHANGED <<regVars, codecVars, timeline_data, playback_loop, tick, apc,
                   acopy, views, edits, restVars>>

\* One attribute store <<owner, field, value>>: owner is "self" for a field
\* of the PSGState, or the name of the channel attribute
StoreInto(o, c, id, store) ==
    IF store[1] = "self"
    THEN [objs |-> [o EXCEPT ![id][store[2]] = store[3]], chan |-> c]
    ELSE [objs |-> o, chan |-> [c EXCEPT ![o[id][store[1]]][store[2]] = store[3]]]

\* the same store on a PSGState held by value
StoreIntoView(v, store) ==
    IF store[1] = "self"
    THEN [v EXCEPT ![store[2]] = store[3]]
    ELSE [v EXCEPT ![store[1]][store[2]] = store[3]]

RECURSIVE ApplyStores(_, _)
ApplyStores(v, stores) ==
    IF stores = <<>> THEN v
    ELSE ApplyStores(StoreIntoView(v, Head(stores)), Tail(stores))

\* MainWindow._apply_frame_to_channel(channel, data): its stores, in order
apply_frame_to_channel(owner, data) ==
    (IF "frequency" \in DOMAIN data
     THEN << <<owner, "frequency", Hz(data.frequency)>> >> ELSE <<>>)
    \o (IF "volume" \in DOMAIN data
        THEN << <<owner, "volume", data.volume>> >> ELSE <<>>)
    \o (IF "tone_enabled" \in DOMAIN data
        THEN << <<owner, "tone_enabled", data.tone_enabled>> >> ELSE <<>>)
    \o (IF "noise_enabled" \in DOMAIN data
        THEN << <<owner, "noise_enabled", data.noise_enabled>> >> ELSE <<>>)

\* the loop of _advance_frame over timeline_data.items(): the stores one
\* track contributes at the frame
TrackStores(channel_id, frames, frame) ==
    IF frame \notin DOMAIN frames THEN <<>>
    ELSE IF channel_id = "A" THEN apply_frame_to_channel("channel_a", frames[frame])
    ELSE IF channel_id = "B" THEN apply_frame_to_channel("channel_b", frames[frame])
    ELSE IF channel_id = "C" THEN apply_frame_to_channel("channel_c", frames[frame])
    ELSE IF channel_id = "N" /\ "volume" \in DOMAIN frames[frame]
         THEN << <<"self", "noise_period", frames[frame].volume>> >>
    ELSE <<>>

FrameStores(timeline, frame) ==
    TrackStores("A", timeline["A"], frame) \o TrackStores("B", timeline["B"], frame)
    \o TrackStores("C", timeline["C"], frame) \o TrackStores("N", timeline["N"], frame)
    \o TrackStores("E", timeline["E"], frame)

SetMax(S) == CHOOSE m \in S : \A x \in S : x <= m

\* a max_frame that looks at the first track alone
max_frame_first_track(timeline) ==
    IF DOMAIN timeline["A"] = {} THEN 0 ELSE SetMax(DOMAIN timeline["A"])

\* max_frame of _advance_frame: the last frame any track holds, else 0
max_frame(timeline) ==
    SetMax({IF DOMAIN timeline[t] = {} THEN 0 ELSE SetMax(DOMAIN timeline[t]) :
              t \in DOMAIN timeline})

\* A whole control-thread update that made the stores U to the object the
\* driver reads has finished: a snapshot in progress may, taken between whole
\* updates, have come before it or after it
ViewsAfter(U) ==
    IF apc = 0 THEN views ELSE views \cup {ApplyStores(v, U) : v \in views}

\* the attribute of the PSGState id that holds the channel object ch
OwnerOf(o, id, ch) ==
    IF o[id].channel_a = ch THEN "channel_a"
    ELSE IF o[id].channel_b = ch THEN "channel_b"
    ELSE IF o[id].channel_c = ch THEN "channel_c"
    ELSE "none"

\* Slider values moved to while the stream runs
PlayingSliders == {1}
PlayingSliderVolumes == {15}
PlayingNoiseValues == {31}

\* A volume slider of the JAM tab moves while the stream may be running:
\* MainWindow._update_channel_param on the channel object bound to it
JamVolumeChanged ==
    \E idx \in PlayingSliders, value \in PlayingSliderVolumes :
        LET owner == OwnerOf(objs, psg_state, HandlerChannel(idx))
        IN  /\ ControlIdle
            /\ stream
            /\ SetChannelField(HandlerChannel(idx), "volume", value)
            /\ views' = ViewsAfter(IF owner = "none" THEN <<>>
                                   ELSE << <<owner, "volume", value>> >>)
            /\ UNCHANGED <<current_state, psg_state, objs, snap, ops, regVars,
                           codecVars, timeline_data, current_frame, is_playing,
                           playback_loop, timer_active, btn_frame_stop, stream,
                           tick, apc, acopy, edits, restVars>>

\* The noise slider moves while the stream may be running:
\* MainWindow._on_noise_slider_changed
JamNoiseChanged ==
    \E value \in PlayingNoiseValues :
        /\ ControlIdle
        /\ stream
        /\ SetStateField(current_state, "noise_period", value)
        /\ views' = ViewsAfter(IF current_state = psg_state
                               THEN << <<"self", "noise_period", value>> >>
                               ELSE <<>>)
        /\ UNCHANGED <<current_state, psg_state, chan, snap, ops, regVars,
                       codecVars, timeline_data, current_frame, is_playing,
                       playback_loop, timer_active, btn_frame_stop, stream,
                       tick, apc, acopy, edits, restVars>>

\* The playback timer fires: _advance_frame starts on the control thread
TickBegin ==
    /\ ControlIdle
    /\ timer_active
    /\ tick' = [pc |-> "apply",
                stores |-> FrameStores(timeline_data, current_frame),
                done |-> 0,
                base |-> View(objs, chan, psg_state)]
    /\ UNCHANGED <<liveVars, regVars, codecVars, timeline_data, current_frame,
                   is_playing, playback_loop, timer_active, btn_frame_stop,
                   stream, apc, acopy, views, edits, restVars>>

\* _advance_frame makes its next attribute store into current_state
TickStore ==
    /\ tick.pc = "apply"
    /\ tick.done < Len(tick.stores)
    /\ LET r == StoreInto(objs, chan, current_state, tick.stores[tick.done + 1])
       IN  objs' = r.objs /\ chan' = r.chan
    /\ tick' = [tick EXCEPT !.done = @ + 1]
    /\ UNCHANGED <<current_state, psg_state, snap, ops, regVars, codecVars,
                   timeline_data, current_frame, is_playing, playback_loop,
                   timer_active, btn_frame_stop, stream, apc, acopy, views,
                   edits, restVars>>

\* _advance_frame after its stores: the frame counter advances; past the
\* last frame the playback loops or stops
TickAdvance ==
    /\ tick.pc = "apply"
    /\ tick.done = Len(tick.stores)
    /\ tick' = IdleTick
    /\ views' = ViewsAfter(IF current_state = psg_state THEN tick.stores ELSE <<>>)
    /\ IF current_frame + 1 > max_frame(timeline_data)
       THEN IF playback_loop
            THEN /\ current_frame' = 0
                 /\ UNCHANGED <<liveVars, is_playing, timer_active,
                                btn_frame_stop, stream, restVars>>
            ELSE FrameStop
       ELSE /\ current_frame' = current_frame + 1
            /\ UNCHANGED <<liveVars, is_playing, timer_active, btn_frame_stop,
                           stream, restVars>>
    /\ UNCHANGED <<regVars, codecVars, timeline_data, playback_loop, apc, acopy,
                   edits, restVars>>

\* The audio thread enters LivePSGStream._callback and calls
\* self.psg_state.snapshot()
CallbackBegin ==
    /\ stream
    /\ apc = 0
    /\ apc' = 1
    /\ acopy' = <<>>
    /\ views' = {IF ControlIdle THEN View(objs, chan, psg_state) ELSE tick.base}
    /\ UNCHANGED <<liveVars, regVars, codecVars, timeline_data, current_frame,
                   is_playing, playback_loop, timer_active, btn_frame_stop,
                   stream, tick, edits, restVars>>

\* snapshot() reads its next attribute
CallbackRead ==
    /\ apc \in 1..17
    /\ acopy' = Append(acopy, ReadField(objs, chan, psg_state, apc))
    /\ apc' = apc + 1
    /\ UNCHANGED <<liveVars, regVars, codecVars, timeline_data, current_frame,
                   is_playing, playback_loop, timer_active, btn_frame_stop,
                   stream, tick, views, edits, restVars>>

\* snapshot() reads its last attribute and returns the new objects to
\* _callback, which holds them in `state`
CallbackSnapshot ==
    /\ apc = 18
    /\ LET r == BuildSnapshot(objs, chan,
                              Append(acopy, ReadField(objs, chan, psg_state, 18)))
       IN  /\ snap' = <<r.id>>
           /\ objs' = r.objs
           /\ chan' = r.chan
    /\ apc' = 19
    /\ acopy' = <<>>
    /\ UNCHANGED <<current_state, psg_state, ops, regVars, codecVars,
                   timeline_data, current_frame, is_playing, playback_loop,
                   timer_active, btn_frame_stop, stream, tick, views, edits, restVars>>

\* _callback renders from `state` and returns; the snapshot is dropped
CallbackReturn ==
    /\ apc = 19
    /\ apc' = 0
    /\ snap' = <<>>
    /\ objs' = CollectStates({})
    /\ chan' = CollectChannels({})
    /\ views' = {}
    /\ UNCHANGED <<current_state, psg_state, ops, regVars, codecVars,
                   timeline_data, current_frame, is_playing, playback_loop,
                   timer_active, btn_frame_stop, stream, tick, acopy, edits, restVars>>

NextAudio ==
    \/ OnFrameApplied
    \/ OnFrameCleared
    \/ OnFrameLoopToggled
    \/ OnFramePlay
    \/ OnFramePause
    \/ OnFrameStop
    \/ JamVolumeChanged
    \/ JamNoiseChanged
    \/ TickBegin
    \/ TickStore
    \/ TickAdvance
    \/ CallbackBegin
    \/ CallbackRead
    \/ CallbackSnapshot
    \/ CallbackReturn

SpecAudio == Init /\ [][NextAudio]_vars

\* C10: every snapshot the audio thread obtains equals the state the driver
\* reads as it was between whole control-thread updates (a slider change, one
\* sequencer tick): it never holds only part of one update.
C10_SnapshotNeverPartial ==
    (apc = 19 /\ ControlIdle) => SnapView \in views

\* ---------------------------------------------------------------------------
\* PygamePSGPlayer: start(), stop() and the background update thread, all of
\* which call render_buffer on the one PSGSynthesizer the player owns.
\* A thread is "none" before it is created, "test" at the while condition of
\* _audio_update_loop, "queue" at the get_queue() test, "render" between the
\* call of synth.render_buffer and its return, "sleep" in time.sleep, and
\* "done" after the loop has ended.  The calling thread is "idle" outside the
\* player, "render" inside start()'s own render_buffer call, and "join"
\* inside update_thread.join(timeout=1.0).
\* ---------------------------------------------------------------------------
Alive(t) == threads[t] \in {"test", "queue", "render", "sleep"}

\* start(), up to the call of render_buffer (available, not yet playing).
StartBegin ==
    /\ ctl = "idle"
    /\ available.pygame
    /\ ~playing
    /\ starts < MaxStarts
    /\ ctl' = "render"
    /\ UNCHANGED driverVars
    /\ UNCHANGED <<playing, stop_event, update_thread, threads, starts>>
    /\ UNCHANGED <<liveVars, regVars, codecVars, audioVars, synthVars, storeVars,
                 shadowVars, splitVars>>

\* start(), from the return of render_buffer: the first buffer is played,
\* stop_event is cleared, a new thread is created and started, playing is set.
StartEnd ==
    /\ ctl = "render"
    /\ stop_event' = FALSE
    /\ starts' = starts + 1
    /\ update_thread' = starts + 1
    /\ threads' = [threads EXCEPT ![starts + 1] = "test"]
    /\ playing' = TRUE
    /\ ctl' = "idle"
    /\ last' = [driver |-> "pygame", op |-> "start", returned |-> "True",
                was_playing |-> FALSE, created |-> TRUE]
    /\ available' = available
    /\ UNCHANGED <<liveVars, regVars, codecVars, audioVars, synthVars, storeVars,
                 shadowVars, splitVars>>

\* start(), when pygame raises on the first buffer: the except branch
\* returns False and nothing else has happened.
StartFailed ==
    /\ ctl = "render"
    /\ ctl' = "idle"
    /\ last' = [driver |-> "pygame", op |-> "start", returned |-> "False",
                was_playing |-> FALSE, created |-> FALSE]
    /\ available' = available
    /\ UNCHANGED <<playing, stop_event, update_thread, threads, starts>>
    /\ UNCHANGED <<liveVars, regVars, codecVars, audioVars, synthVars, storeVars,
                 shadowVars, splitVars>>

\* start() without pygame or without a mixer: returns False at once.
StartUnavailable ==
    /\ ctl = "idle"
    /\ ~available.pygame
    /\ last' = [driver |-> "pygame", op |-> "start", returned |-> "False",
                was_playing |-> playing, created |-> FALSE]
    /\ available' = available
    /\ UNCHANGED playerVars
    /\ UNCHANGED <<liveVars, regVars, codecVars, audioVars, synthVars, storeVars,
                   shadowVars, splitVars>>

\* start() while playing: returns True at once.
StartWhilePlaying ==
    /\ ctl = "idle"
    /\ available.pygame
    /\ playing
    /\ last' = [driver |-> "pygame", op |-> "start", returned |-> "True",
                was_playing |-> TRUE, created |-> FALSE]
    /\ available' = available
    /\ UNCHANGED playerVars
    /\ UNCHANGED <<liveVars, regVars, codecVars, audioVars, synthVars, storeVars,
                   shadowVars, splitVars>>

\* The end of stop(): self.channel.stop() and self.playing = False, or the
\* except branch when the mixer raises in channel.stop(), which logs the
\* error and leaves playing as it is.
StopReturns(raised) ==
    /\ playing' = raised
    /\ ctl' = "idle"
    /\ last' = [driver |-> "pygame", op |-> "stop", returned |-> "None",
                was_playing |-> TRUE, created |-> FALSE]
    /\ available' = available

\* stop() when the player is not available or not playing: nothing happens.
StopWhileStopped ==
    /\ ctl = "idle"
    /\ ~(available.pygame /\ playing)
    /\ last' = [driver |-> "pygame", op |-> "stop", returned |-> "None",
                was_playing |-> FALSE, created |-> FALSE]
    /\ available' = available
    /\ UNCHANGED playerVars
    /\ UNCHANGED <<liveVars, regVars, codecVars, audioVars, synthVars, storeVars,
                   shadowVars, splitVars>>

\* stop(), from its entry: the event is set; with a live update thread the
\* caller waits in join, otherwise the channel is stopped at once.
StopBegin ==
    /\ ctl = "idle"
    /\ available.pygame
    /\ playing
    /\ stop_event' = TRUE
    /\ IF update_thread # 0 /\ Alive(update_thread)
         THEN ctl' = "join" /\ playing' = playing /\ UNCHANGED driverVars
         ELSE \E raised \in BOOLEAN : StopReturns(raised)
    /\ UNCHANGED <<update_thread, threads, starts>>
    /\ UNCHANGED <<liveVars, regVars, codecVars, audioVars, synthVars, storeVars,
                 shadowVars, splitVars>>

\* join returns because the update thread has ended.
StopJoined ==
    /\ ctl = "join"
    /\ ~Alive(update_thread)
    /\ \E raised \in BOOLEAN : StopReturns(raised)
    /\ UNCHANGED <<stop_event, update_thread, threads, starts>>
    /\ UNCHANGED <<liveVars, regVars, codecVars, audioVars, synthVars, storeVars,
                 shadowVars, splitVars>>

\* join returns after its timeout of one second with the thread still alive;
\* stop() goes on exactly as if the thread had ended.
StopTimedOut ==
    /\ ctl = "join"
    /\ Alive(update_thread)
    /\ \E raised \in BOOLEAN : StopReturns(raised)
    /\ UNCHANGED <<stop_event, update_thread, threads, starts>>
    /\ UNCHANGED <<liveVars, regVars, codecVars, audioVars, synthVars, storeVars,
                 shadowVars, splitVars>>

\* while not self.stop_event.is_set()
LoopTest(t) ==
    /\ UNCHANGED driverVars
    /\ threads[t] = "test"
    /\ threads' = [threads EXCEPT ![t] = IF stop_event THEN "done" ELSE "queue"]
    /\ UNCHANGED <<playing, stop_event, update_thread, ctl, starts>>
    /\ UNCHANGED <<liveVars, regVars, codecVars, audioVars, synthVars, storeVars,
                 shadowVars, splitVars>>

\* if self.channel.get_queue() is None: the mixer has room (the thread goes
\* on into render_buffer) or it has not (the thread goes to sleep).
LoopQueue(t) ==
    /\ UNCHANGED driverVars
    /\ threads[t] = "queue"
    /\ \E room \in BOOLEAN :
         threads' = [threads EXCEPT ![t] = IF room THEN "render" ELSE "sleep"]
    /\ UNCHANGED <<playing, stop_event, update_thread, ctl, starts>>
    /\ UNCHANGED <<liveVars, regVars, codecVars, audioVars, synthVars, storeVars,
                 shadowVars, splitVars>>

\* render_buffer returns; the buffer is queued.
LoopRender(t) ==
    /\ UNCHANGED driverVars
    /\ threads[t] = "render"
    /\ threads' = [threads EXCEPT ![t] = "sleep"]
    /\ UNCHANGED <<playing, stop_event, update_thread, ctl, starts>>
    /\ UNCHANGED <<liveVars, regVars, codecVars, audioVars, synthVars, storeVars,
                 shadowVars, splitVars>>

\* time.sleep(0.01) returns.
LoopSleep(t) ==
    /\ UNCHANGED driverVars
    /\ threads[t] = "sleep"
    /\ threads' = [threads EXCEPT ![t] = "test"]
    /\ UNCHANGED <<playing, stop_event, update_thread, ctl, starts>>
    /\ UNCHANGED <<liveVars, regVars, codecVars, audioVars, synthVars, storeVars,
                 shadowVars, splitVars>>

\* LivePSGStream.start(): False without sounddevice; True when a stream is
\* open already; else the device is looked up and an OutputStream opened and
\* started, and whatever raises on the way is caught and leaves stream None.
LiveStart ==
    /\ ctl = "idle"
    /\ \E opens \in BOOLEAN :
         LET started == available.sounddevice /\ ~stream /\ opens
         IN  /\ stream' = (IF available.sounddevice THEN stream \/ opens ELSE stream)
             /\ last' = [driver |-> "sounddevice", op |-> "start",
                         returned |-> IF available.sounddevice /\ (stream \/ opens)
                                      THEN "True" ELSE "False",
                         was_playing |-> stream, created |-> started]
    /\ available' = available
    /\ UNCHANGED <<timeline_data, current_frame, is_playing, playback_loop,
                   timer_active, btn_frame_stop, tick, apc, acopy, views, edits>>
    /\ UNCHANGED <<liveVars, regVars, codecVars, playerVars, synthVars, storeVars,
                   shadowVars, splitVars>>

\* LivePSGStream.stop(): an open stream is stopped and closed, and stream is
\* None afterwards whether that raised or not (finally).
LiveStop ==
    /\ ctl = "idle"
    /\ stream' = FALSE
    /\ last' = [driver |-> "sounddevice", op |-> "stop", returned |-> "None",
                was_playing |-> stream, created |-> FALSE]
    /\ available' = available
    /\ UNCHANGED <<timeline_data, current_frame, is_playing, playback_loop,
                   timer_active, btn_frame_stop, tick, apc, acopy, views, edits>>
    /\ UNCHANGED <<liveVars, regVars, codecVars, playerVars, synthVars, storeVars,
                   shadowVars, splitVars>>

NextPlayer ==
    \/ StartBegin
    \/ StartEnd
    \/ StartFailed
    \/ StartUnavailable
    \/ StartWhilePlaying
    \/ StopWhileStopped
    \/ LiveStart
    \/ LiveStop
    \/ StopBegin
    \/ StopJoined
    \/ StopTimedOut
    \/ \E t \in PlayerThreads : LoopTest(t)
    \/ \E t \in PlayerThreads : LoopQueue(t)
    \/ \E t \in PlayerThreads : LoopRender(t)
    \/ \E t \in PlayerThreads : LoopSleep(t)

\* The drivers after construction: each backend is there or it is not
\* (the import failed, or pygame.mixer.init raised in __init__).
InitPlayer ==
    /\ InitWindow
    /\ ops = 0
    /\ IdleRegs /\ IdleCodec /\ IdleAudio /\ IdlePlayer /\ IdleSynth /\ IdleStore
    /\ IdleShadow /\ IdleSplit
    /\ available \in [{"pygame", "sounddevice"} -> BOOLEAN]
    /\ last = NoCall

SpecPlayer == InitPlayer /\ [][NextPlayer]_vars

\* The render_buffer calls in progress on the player's synthesizer.
RendersInProgress ==
    Cardinality({t \in PlayerThreads : threads[t] = "render"})
        + (IF ctl = "render" THEN 1 ELSE 0)

\* C11: at most one render_buffer call is in progress on the synthesizer of
\* a driver at any time, over every interleaving of start(), stop(), a
\* start() after a stop(), and the update thread, the join timeout included.
C11_OneRenderAtATime == RendersInProgress <= 1

\* ---------------------------------------------------------------------------
\* PSGSynthesizer (audio/synthesizer.py) and AY38914Synth (audio/engine.py).
\* Samples, phases and amplitudes are exact rationals <<n, d>> with d > 0; the
\* rounding of float32 and float64 is not modelled.
\* ---------------------------------------------------------------------------
SAMPLE_RATE == 44100

RatNeg(x) == <<-x[1], x[2]>>
RatAbs(x) == IF x[1] < 0 THEN RatNeg(x) ELSE x
RatAdd(x, y) ==
    LET l == (x[2] \div Gcd(x[2], y[2])) * y[2]
    IN  Rat(x[1] * (l \div x[2]) + y[1] * (l \div y[2]), l)
RatMulInt(x, k) ==
    LET g == Gcd(IF k < 0 THEN -k ELSE k, x[2])
    IN  IF k = 0 THEN <<0, 1>> ELSE Rat(x[1] * (k \div g), x[2] \div g)
RatDiv(x, y) ==
    IF y[1] < 0 THEN Rat(-(x[1] * y[2]), x[2] * (-y[1]))
    ELSE Rat(x[1] * y[2], x[2] * y[1])
RatLess(x, y) == x[1] * y[2] < y[1] * x[2]
\* x % 1.0 for x >= 0
RatMod1(x) == Rat(x[1] % x[2], x[2])
\* x < 0.5 for 0 <= x < 1
BelowHalf(x) == 2 * x[1] < x[2]

RECURSIVE BitXor(_, _)
BitXor(a, b) ==
    IF a = 0 THEN b
    ELSE IF b = 0 THEN a
    ELSE (((a % 2) + (b % 2)) % 2) + 2 * BitXor(a \div 2, b \div 2)

\* The array F(1), ..., F(n), built element by element.
\* F applied to a value that is computed once, as a Python local holds the
\* result of the expression assigned to it.
Once(value, F(_)) == CHOOSE result \in {F(v) : v \in {value}} : TRUE

RECURSIVE ArrayFrom(_, _, _)
ArrayFrom(F(_), i, n) ==
    IF i > n THEN <<>> ELSE <<F(i)>> \o ArrayFrom(F, i + 1, n)
Array(F(_), n) == ArrayFrom(F, 1, n)

Zeros(n) == [i \in 1..n |-> <<0, 1>>]

\* PSGSynthesizer._read_period(fine, coarse)
Synth_read_period(fine, coarse) ==
    LET period == BitOr(ShiftLeft(BitAnd(coarse, 15), 8), BitAnd(fine, 255))
    IN  IF period < 1 THEN 1 ELSE period

\* One shift of the 17-bit LFSR: bit = ((lfsr >> 0) ^ (lfsr >> 3)) & 1;
\* lfsr = (lfsr >> 1) | (bit << 16).
LfsrShift_without_feedback(lfsr) == ShiftRight(lfsr, 1)
LfsrShift(lfsr) ==
    LET bit == BitAnd(BitXor(ShiftRight(lfsr, 0), ShiftRight(lfsr, 3)), 1)
    IN  BitOr(ShiftRight(lfsr, 1), ShiftLeft(bit, 16))

\* The LFSR values after 1, 2, ..., k shifts.
RECURSIVE LfsrRun(_, _)
LfsrRun(lfsr, k) ==
    IF k = 0 THEN <<>>
    ELSE <<LfsrShift(lfsr)>> \o LfsrRun(LfsrShift(lfsr), k - 1)

\* samples_per_update = max(1, int(sample_rate / (CLOCK_HZ / (32.0 * period))))
samples_per_update_every_sample(period) == 1
samples_per_update(period) ==
    LET q == (SAMPLE_RATE * 32 * period) \div CLOCK_HZ
    IN  IF q < 1 THEN 1 ELSE q

\* PSGSynthesizer._generate_noise(num_samples, period) on a synthesizer whose
\* LFSR is lfsr and whose last output is lfsr_output: the noise samples (+1,
\* -1, or 0 when the period is 0) and the LFSR and output left behind.
generate_noise_free_running(num_samples, period, lfsr, lfsr_output) ==
    LET Out(l) == IF BitAnd(l, 1) = 1 THEN 1 ELSE -1
    IN  Once(LfsrRun(lfsr, num_samples), LAMBDA run :
            [noise |-> Array(LAMBDA i : Out(run[i]), num_samples),
             lfsr |-> IF num_samples = 0 THEN lfsr ELSE run[num_samples],
             lfsr_output |-> IF num_samples = 0 THEN lfsr_output
                             ELSE Out(run[num_samples])])
generate_noise(num_samples, period, lfsr, lfsr_output) ==
    IF period = 0
    THEN [noise |-> [i \in 1..num_samples |-> 0],
          lfsr |-> lfsr, lfsr_output |-> lfsr_output]
    ELSE LET spu == samples_per_update(period)
             updates == (num_samples + spu - 1) \div spu
             Out(l) == IF BitAnd(l, 1) = 1 THEN 1 ELSE -1
         IN  Once(LfsrRun(lfsr, updates), LAMBDA run :
                 [noise |-> Array(LAMBDA i : Out(run[((i - 1) \div spu) + 1]),
                                  num_samples),
                  lfsr |-> IF updates = 0 THEN lfsr ELSE run[updates],
                  lfsr_output |-> IF updates = 0 THEN lfsr_output
                                  ELSE Out(run[updates])])

\* PSGSynthesizer._generate_tone(num_samples, frequency, phase) for
\* num_samples >= 1: the square wave (+1 while phase % 1 < 0.5, else -1) and
\* the phase (phases[-1] + phase_increment) % 1.0.  With num_samples = 0 the
\* code reads phases[-1] of an empty array, which raises IndexError.
generate_tone_last_phase(num_samples, frequency, phase) ==
    LET phase_increment == Rat(frequency[1], frequency[2] * SAMPLE_RATE)
        phases(i) == RatAdd(RatMulInt(phase_increment, i - 1), phase)
        Level(i) == IF BelowHalf(RatMod1(phases(i))) THEN 1 ELSE -1
    IN  [wave |-> Array(Level, num_samples),
         phase |-> RatMod1(phases(num_samples))]
generate_tone_from_zero(num_samples, frequency, phase) ==
    LET phase_increment == Rat(frequency[1], frequency[2] * SAMPLE_RATE)
        phases(i) == RatMulInt(phase_increment, i - 1)
        Level(i) == IF BelowHalf(RatMod1(phases(i))) THEN 1 ELSE -1
    IN  [wave |-> Array(Level, num_samples),
         phase |-> RatMod1(RatAdd(phases(num_samples), phase_increment))]
generate_tone(num_samples, frequency, phase) ==
    IF ~RatLess(<<0, 1>>, frequency)
    THEN [wave |-> [i \in 1..num_samples |-> 0], phase |-> phase]
    ELSE LET phase_increment == Rat(frequency[1], frequency[2] * SAMPLE_RATE)
             phases(i) == RatAdd(RatMulInt(phase_increment, i - 1), phase)
             Level(i) == IF BelowHalf(RatMod1(phases(i))) THEN 1 ELSE -1
         IN  [wave |-> Array(Level, num_samples),
              phase |-> RatMod1(RatAdd(phases(num_samples), phase_increment))]

\* np.where((tone > 0) & (noise > 0), 1.0, -1.0)
ToneNoiseProduct(tone, noise) == [i \in 1..Len(tone) |-> tone[i] * noise[i]]
ToneAndNoise(tone, noise) ==
    [i \in 1..Len(tone) |-> IF tone[i] > 0 /\ noise[i] > 0 THEN 1 ELSE -1]

\* np.max(np.abs(mix)) of a mix that is not empty
Peak(mix) ==
    Once({RatAbs(mix[i]) : i \in 1..Len(mix)}, LAMBDA magnitudes :
        CHOOSE m \in magnitudes : \A x \in magnitudes : ~RatLess(m, x))

\* if max_val > 1.0: mix = mix / max_val
Normalize_always(mix) ==
    Once(Peak(mix), LAMBDA max_val :
        IF max_val[1] = 0 THEN mix
        ELSE Array(LAMBDA i : RatDiv(mix[i], max_val), Len(mix)))
Normalize(mix) ==
    Once(Peak(mix), LAMBDA max_val :
        IF RatLess(<<1, 1>>, max_val)
        THEN Array(LAMBDA i : RatDiv(mix[i], max_val), Len(mix))
        ELSE mix)

\* np.clip(mix, -1.0, 1.0)
Clip(mix) ==
    [i \in 1..Len(mix) |->
        IF RatLess(mix[i], <<-1, 1>>) THEN <<-1, 1>>
        ELSE IF RatLess(<<1, 1>>, mix[i]) THEN <<1, 1>>
        ELSE mix[i]]

\* The last lines of render_buffer: normalise if clipping would occur, clip.
FinishMix_raw(mix) == mix
FinishMix(mix) == Once(Normalize(mix), LAMBDA normalized : Clip(normalized))

\* One pass of the channel loop of render_buffer for channel idx (0, 1, 2)
\* whose phase accumulator holds phase: whether the channel is skipped, whether
\* _generate_tone raises, the tone generated (empty when none is), the phase
\* left in the accumulator, and channel_signal * amplitude.
RenderChannel(registers, noise, num_samples, idx, phase) ==
    LET r7 == Get(registers, "R7", 255)
        tone_enabled == BitAnd(r7, ShiftLeft(1, idx)) = 0
        noise_enabled == BitAnd(r7, ShiftLeft(8, idx)) = 0
        period == Synth_read_period(Get(registers, RegName(2 * idx), 0),
                                    Get(registers, RegName(2 * idx + 1), 0))
        freq == period_to_frequency(period)
        toned == tone_enabled /\ RatLess(<<0, 1>>, freq)
        raises == toned /\ num_samples = 0
        Signal(t) ==
            IF tone_enabled /\ noise_enabled
            THEN IF toned THEN ToneAndNoise(t.wave, noise) ELSE noise
            ELSE IF tone_enabled
            THEN IF toned THEN t.wave ELSE [i \in 1..num_samples |-> 0]
            ELSE noise
        volume == BitAnd(Get(registers, RegName(10 + idx), 0), 15)
    IN  IF ~tone_enabled /\ ~noise_enabled
        THEN [muted |-> TRUE, raises |-> FALSE, tone |-> <<>>, phase |-> phase,
              contribution |-> Zeros(num_samples)]
        ELSE IF raises
        THEN [muted |-> FALSE, raises |-> TRUE, tone |-> <<>>, phase |-> phase,
              contribution |-> <<>>]
        ELSE Once(generate_tone(num_samples, freq, phase), LAMBDA t :
             Once(Signal(t), LAMBDA channel_signal :
                 [muted |-> FALSE, raises |-> FALSE,
                  tone |-> IF toned THEN t.wave ELSE <<>>,
                  phase |-> IF toned THEN t.phase ELSE phase,
                  contribution |->
                      Array(LAMBDA i : Rat(channel_signal[i] * volume, 15),
                            num_samples)]))

\* PSGSynthesizer.render_buffer(num_samples, state) on the synthesizer s: what
\* it raises ("none" when it returns), the samples returned, the synthesizer
\* afterwards, and the values it computes on the way: the noise waveform, the
\* tone and the contribution of each channel, and the mix before it is
\* normalised.  np.max of an empty mix raises ValueError.
render_buffer(num_samples, state, s) ==
    LET failed(error) ==
            [raised |-> error, out |-> <<>>, synth |-> s, noise |-> <<>>,
             tone |-> <<<<>>, <<>>, <<>>>>, muted |-> <<FALSE, FALSE, FALSE>>,
             contribution |-> <<<<>>, <<>>, <<>>>>, mix |-> <<>>]
    IN  Once(PSGState_to_registers(state), LAMBDA registers :
        Once(generate_noise(num_samples, Get(registers, "R6", 0),
                            s.lfsr, s.lfsr_output), LAMBDA n :
        Once(RenderChannel(registers, n.noise, num_samples, 0, s.phase_a), LAMBDA a :
        Once(RenderChannel(registers, n.noise, num_samples, 1, s.phase_b), LAMBDA b :
        Once(RenderChannel(registers, n.noise, num_samples, 2, s.phase_c), LAMBDA c :
            IF a.raises \/ b.raises \/ c.raises THEN failed("IndexError")
            ELSE IF num_samples = 0 THEN failed("ValueError")
            ELSE Once(Array(LAMBDA i : RatAdd(RatAdd(a.contribution[i],
                                                     b.contribution[i]),
                                              c.contribution[i]),
                            num_samples), LAMBDA mix :
                 [raised |-> "none",
                  out |-> FinishMix(mix),
                  synth |-> [phase_a |-> a.phase, phase_b |-> b.phase,
                             phase_c |-> c.phase,
                             lfsr |-> n.lfsr, lfsr_output |-> n.lfsr_output],
                  noise |-> n.noise,
                  tone |-> <<a.tone, b.tone, c.tone>>,
                  muted |-> <<a.muted, b.muted, c.muted>>,
                  contribution |-> <<a.contribution, b.contribution,
                                     c.contribution>>,
                  mix |-> mix]))))))

\* AY38914Synth._read_period(registers, fine_reg, coarse_reg): the fine
\* register is not masked.
AY_read_period(registers, fine_reg, coarse_reg) ==
    LET period == BitOr(ShiftLeft(BitAnd(Get(registers, coarse_reg, 0), 15), 8),
                        Get(registers, fine_reg, 0))
    IN  IF period < 1 THEN 1 ELSE period

\* volume_to_amplitude(volume)
volume_to_amplitude(volume) == Rat(ClampInt(0, 15, volume), 15)

\* AY38914Synth._square_wave(freq, t) at t = i / sample_rate
square_wave(freq, i) ==
    IF BelowHalf(RatMod1(RatMulInt(Rat(freq[1], freq[2] * SAMPLE_RATE), i)))
    THEN 1 ELSE -1

\* AY38914Synth.render(registers, duration), where draws are the values that
\* rng.uniform(-1.0, 1.0) returns: the number of samples and the samples.
AY_render(registers, duration, draws) ==
    LET q == (SAMPLE_RATE * duration[1]) \div duration[2]
        num_samples == IF q < 1 THEN 1 ELSE q
        Wave(fine_reg, coarse_reg, vol_reg, i) ==
            LET freq == period_to_frequency(AY_read_period(registers, fine_reg, coarse_reg))
                volume == volume_to_amplitude(Get(registers, vol_reg, 0))
            IN  IF ~RatLess(<<0, 1>>, freq) \/ volume[1] <= 0 THEN <<0, 1>>
                ELSE RatMulInt(volume, square_wave(freq, i - 1))
        noise_volume == volume_to_amplitude(Get(registers, "R10", 0))
        Noise(i) ==
            IF Get(registers, "R6", 0) > 0 /\ noise_volume[1] > 0
            THEN RatDiv(<<draws[i][1] * noise_volume[1], draws[i][2] * noise_volume[2]>>,
                        <<2, 1>>)
            ELSE <<0, 1>>
        Mixed(i) ==
            RatAdd(RatAdd(Wave("R0", "R1", "R8", i), Wave("R2", "R3", "R9", i)),
                   RatAdd(Wave("R4", "R5", "R10", i), Noise(i)))
    IN  Once(Array(Mixed, num_samples), LAMBDA mix :
        Once(IF Peak(mix)[1] = 0 THEN <<1, 1>> ELSE Peak(mix), LAMBDA max_val :
        Once(Array(LAMBDA i : RatDiv(mix[i], max_val), num_samples),
             LAMBDA normalized :
                 [num_samples |-> num_samples, out |-> Clip(normalized)])))

\* ---------------------------------------------------------------------------
\* The synthesizers driven: render_buffer called again and again on one
\* PSGSynthesizer, or render called on an AY38914Synth.  The two objects share
\* no state and AY38914Synth keeps none between calls, so a behaviour drives
\* one of them.
\* ---------------------------------------------------------------------------
MaxRenders == 2

MutedChannel == PSGChannel(Hz(440), 12, FALSE, FALSE, FALSE)
ToneChannel == PSGChannel(Hz(18643), 15, TRUE, FALSE, FALSE)
ToneNoiseChannel == PSGChannel(Hz(9322), 9, TRUE, TRUE, FALSE)
NoiseChannel == PSGChannel(Hz(440), 15, FALSE, TRUE, TRUE)
SynthStates ==
    { PSGState(a, b, c, n, 0, 0) :
        a \in {MutedChannel, ToneChannel, ToneNoiseChannel, NoiseChannel},
        b \in {MutedChannel, ToneChannel},
        c \in {MutedChannel, ToneNoiseChannel},
        n \in {0, 1} }
\* The states rendered in long buffers; seventeen samples take the LFSR, which
\* starts at 1, to its first output of +1.
LongStates ==
    { PSGState(a, MutedChannel, ToneNoiseChannel, n, 0, 0) :
        a \in {MutedChannel, ToneChannel, NoiseChannel},
        n \in {0, 1, 6} }
\* The calls made: <<num_samples, state>>
RenderInputs == ({0, 1, 2} \X SynthStates) \cup ({17} \X LongStates)

PreviewRegisters ==
    { ("R0" :> r0) @@ ("R8" :> r8) @@ ("R9" :> r9) @@ ("R10" :> r10) @@ ("R6" :> r6) :
        r0 \in {6, 300}, r8 \in {0, 20}, r9 \in {0, 15}, r10 \in {0, 9}, r6 \in {0, 1} }
PreviewDurations == {<<0, 1>>, <<1, 17640>>}
NoiseDraws == {<<-1, 1>>, <<0, 1>>, <<1, 2>>}

\* synth.render_buffer(num_samples, state)
RenderBuffer ==
    /\ renders < MaxRenders
    /\ ~pv.called
    /\ \E input \in RenderInputs :
         LET num_samples == input[1]
             state == input[2]
         IN  \E r \in {render_buffer(num_samples, state, synth)} :
               /\ synth' = r.synth
               /\ rb' = [num_samples |-> num_samples, state |-> state,
                         before |-> synth, result |-> r]
    /\ renders' = renders + 1
    /\ pv' = pv
    /\ UNCHANGED <<liveVars, regVars, codecVars, audioVars, playerVars, storeVars,
                 moreVars>>

\* AY38914Synth(sample_rate=44100).render(registers, duration)
Preview ==
    /\ renders = 0
    /\ ~pv.called
    /\ \E registers \in PreviewRegisters, duration \in PreviewDurations :
         \E draws \in [1..2 -> NoiseDraws] :
           \E r \in {AY_render(registers, duration, draws)} :
             pv' = [called |-> TRUE, registers |-> registers,
                    num_samples |-> r.num_samples, out |-> r.out]
    /\ UNCHANGED <<synth, rb, renders>>
    /\ UNCHANGED <<liveVars, regVars, codecVars, audioVars, playerVars, storeVars,
                 moreVars>>

NextSynth ==
    \/ RenderBuffer
    \/ Preview

SpecSynth == Init /\ [][NextSynth]_vars

Returned == renders > 0 /\ rb.result.raised = "none"

\* Channel 1, 2, 3 (A, B, C) of the state handed to the last render_buffer call.
RenderedChannel(x) ==
    IF x = 1 THEN rb.state.channel_a
    ELSE IF x = 2 THEN rb.state.channel_b
    ELSE rb.state.channel_c

\* Channel x has tone and noise enabled at a volume above 0 and the other two
\* channels have both disabled.
ToneAndNoiseAlone(x) ==
    /\ RenderedChannel(x).tone_enabled
    /\ RenderedChannel(x).noise_enabled
    /\ RenderedChannel(x).volume > 0
    /\ \A y \in (1..3) \ {x} :
         ~RenderedChannel(y).tone_enabled /\ ~RenderedChannel(y).noise_enabled

\* C12: when one channel has tone and noise both enabled at volume v > 0 and
\* the other channels are disabled, sample i of render_buffer is +v/15 exactly
\* when the channel's square wave and the noise are both +1 at i, and -v/15
\* otherwise.
C12_ToneNoiseAndGate ==
    \A x \in 1..3 :
        (Returned /\ ToneAndNoiseAlone(x)) =>
            \A i \in 1..rb.num_samples :
                rb.result.out[i] =
                    IF rb.result.tone[x][i] = 1 /\ rb.result.noise[i] = 1
                    THEN Rat(RenderedChannel(x).volume, 15)
                    ELSE Rat(-RenderedChannel(x).volume, 15)

\* A render of channel C alone, tone and noise on, in which the gate is open
\* at one sample and closed at another.
C12_Witness ==
    /\ Returned /\ ToneAndNoiseAlone(3)
    /\ \E i, j \in 1..rb.num_samples :
         /\ rb.result.tone[3][i] = 1 /\ rb.result.noise[i] = 1
         /\ rb.result.out[i] = <<3, 5>>
         /\ rb.result.tone[3][j] = 1 /\ rb.result.noise[j] = -1
         /\ rb.result.out[j] = <<-3, 5>>

InUnitRange(x) == ~RatLess(x, <<-1, 1>>) /\ ~RatLess(<<1, 1>>, x)

\* C13: every sample returned by render_buffer, for any state and any earlier
\* renders, and every sample returned by AY38914Synth.render lies in [-1, 1].
C13_SamplesInRange ==
    /\ Returned => \A i \in 1..Len(rb.result.out) : InUnitRange(rb.result.out[i])
    /\ pv.called => \A i \in 1..Len(pv.out) : InUnitRange(pv.out[i])

\* A second render whose channels add up to more than 1 before the mix is
\* normalised, and whose loudest sample comes out as 1 or -1.
C13_Witness ==
    /\ renders = 2 /\ Returned
    /\ RatLess(<<1, 1>>, Peak(rb.result.mix))
    /\ \E i \in 1..Len(rb.result.out) : RatAbs(rb.result.out[i]) = <<1, 1>>

\* Channel x of the rendered state cannot sound: tone and noise are both
\* disabled, or only noise is enabled and the noise period is 0.
Soundless(x) ==
    \/ ~RenderedChannel(x).tone_enabled /\ ~RenderedChannel(x).noise_enabled
    \/ /\ ~RenderedChannel(x).tone_enabled /\ RenderedChannel(x).noise_enabled
       /\ rb.state.noise_period = 0

\* C14: a channel with tone and noise both disabled, or with only noise
\* enabled while the noise period is 0, adds exactly 0 to every sample; a
\* state with all three channels disabled renders num_samples zeros.
C14_SilentChannels ==
    Returned =>
        /\ \A x \in 1..3 :
             Soundless(x) =>
                 \A i \in 1..Len(rb.result.contribution[x]) :
                     rb.result.contribution[x][i] = <<0, 1>>
        /\ (\A x \in 1..3 :
               ~RenderedChannel(x).tone_enabled /\ ~RenderedChannel(x).noise_enabled)
             => rb.result.out = Zeros(rb.num_samples)

\* Seventeen samples in which channel A, noise only at volume 15 with the
\* noise period 0, adds nothing while channel C sounds.
C14_Witness ==
    /\ Returned /\ rb.num_samples = 17
    /\ rb.state.noise_period = 0
    /\ ~rb.state.channel_a.tone_enabled /\ rb.state.channel_a.noise_enabled
    /\ rb.state.channel_a.volume = 15
    /\ rb.result.contribution[1] = Zeros(17)
    /\ rb.result.contribution[3] # Zeros(17)
    /\ rb.result.out = rb.result.contribution[3]

\* C15: render_buffer divides the mix by its peak exactly when the peak of the
\* un-normalised mix is above 1.0; with a peak of 1.0 or less the samples
\* returned are the un-normalised sum itself.
C15_NormalizeOnlyAbovePeak ==
    Returned =>
        LET max_val == Peak(rb.result.mix)
        IN  IF RatLess(<<1, 1>>, max_val)
            THEN rb.result.out =
                     [i \in 1..rb.num_samples |-> RatDiv(rb.result.mix[i], max_val)]
            ELSE rb.result.out = rb.result.mix

\* Channel C alone at volume 9: the peak is 3/5 and the samples come back as
\* they were summed.
C15_Witness ==
    /\ Returned /\ rb.num_samples = 17
    /\ Peak(rb.result.mix) = <<3, 5>>
    /\ rb.result.out = rb.result.mix
    /\ \E i \in 1..17 : rb.result.out[i] = <<3, 5>>

\* C16: render_buffer never raises, for every state and every num_samples >= 0,
\* num_samples = 0 included, and returns exactly num_samples samples.
C16_NeverRaises ==
    renders > 0 =>
        /\ rb.result.raised = "none"
        /\ Len(rb.result.out) = rb.num_samples

\* What holds of it: a call with num_samples >= 1 returns num_samples samples.
RendersOfOneOrMore ==
    (renders > 0 /\ rb.num_samples >= 1) =>
        /\ rb.result.raised = "none"
        /\ Len(rb.result.out) = rb.num_samples

\* The phase accumulator of channel 1, 2, 3 in a synthesizer.
PhaseOf(s, x) ==
    IF x = 1 THEN s.phase_a ELSE IF x = 2 THEN s.phase_b ELSE s.phase_c

\* The frequency the synthesizer decodes for channel x of the rendered state.
DecodedFrequency(x) ==
    period_to_frequency(frequency_to_period(RenderedChannel(x).frequency))

\* C17: after render_buffer(N, state) with the tone of channel X enabled at the
\* decoded frequency f, the phase stored for X is (previous phase + N * f /
\* sample_rate) mod 1; and every phase accumulator is at all times in [0, 1).
C17_PhaseAdvance ==
    /\ Returned =>
         \A x \in 1..3 :
             RenderedChannel(x).tone_enabled =>
                 PhaseOf(synth, x) =
                     RatMod1(RatAdd(PhaseOf(rb.before, x),
                                    RatMulInt(Rat(DecodedFrequency(x)[1],
                                                  DecodedFrequency(x)[2] * SAMPLE_RATE),
                                              rb.num_samples)))
    /\ \A x \in 1..3 :
         PhaseOf(synth, x)[1] >= 0 /\ PhaseOf(synth, x)[1] < PhaseOf(synth, x)[2]

\* A second render of seventeen samples with the tone of channel A enabled,
\* starting from a phase that the first render left away from 0.
C17_Witness ==
    /\ renders = 2 /\ Returned /\ rb.num_samples = 17
    /\ rb.state.channel_a.tone_enabled
    /\ rb.before.phase_a # <<0, 1>>
    /\ synth.phase_a # rb.before.phase_a
    /\ synth.phase_a # <<0, 1>>

\* ---------------------------------------------------------------------------
\* The defaults of a freshly constructed PSGState, seen where the program
\* constructs one while it runs: Stop replaces current_state by PSGState().
\* ---------------------------------------------------------------------------
FreshChannelA(s) ==
    /\ s.channel_a.frequency = Hz(440)
    /\ s.channel_a.volume = 12
    /\ s.channel_a.tone_enabled
    /\ ~s.channel_a.noise_enabled

\* C18: a fresh PSGState() has channel A at 440.0 Hz, volume 12,
\* tone on, noise off, and noise_period = 0, envelope_period = 0,
\* envelope_shape = 0.
C18_FreshStateNoiseZero ==
    [][current_state' # current_state =>
          LET s == View(objs', chan', current_state')
          IN  /\ FreshChannelA(s)
              /\ s.noise_period = 0
              /\ s.envelope_period = 0
              /\ s.envelope_shape = 0]_vars

\* ---------------------------------------------------------------------------
\* The project file (storage/project_model.py, storage/io.py) and the handlers
\* of the window that fill, save and open a project.  An Optional field is
\* <<>> for None and <<v>> for the value v; a dict is a function from its
\* keys; json.dump followed by json.load gives back the same dict, since every
\* key is a string and every value an int, a bool, a string, null, a list or
\* a dict.
\* ---------------------------------------------------------------------------
CHANNEL_IDS == {"A", "B", "C", "N"}

None == <<>>
OptGet(data, key) == IF key \in DOMAIN data THEN data[key] ELSE None

\* _clamp_byte(value)
clamp_byte(value) == ClampInt(0, 255, value)

\* _validate_registers(registers): ValueError for an unknown key, else every
\* value clamped to a byte.
validate_registers_unclamped(registers) ==
    IF \E key \in DOMAIN registers : key \notin REGISTER_KEYS
    THEN [raised |-> "ValueError", value |-> <<>>]
    ELSE [raised |-> "none", value |-> registers]
validate_registers(registers) ==
    IF \E key \in DOMAIN registers : key \notin REGISTER_KEYS
    THEN [raised |-> "ValueError", value |-> <<>>]
    ELSE [raised |-> "none",
          value |-> [key \in DOMAIN registers |-> clamp_byte(registers[key])]]

\* TrackEvent(frame, duration, ...): __post_init__ raises ValueError for
\* frame < 0 and for duration <= 0 and changes nothing else.
TrackEvent(e) ==
    IF e.frame < 0 \/ e.duration <= 0
    THEN [raised |-> "ValueError", value |-> <<>>]
    ELSE [raised |-> "none", value |-> e]

\* TrackEvent.to_dict
TrackEvent_to_dict(e) ==
    [frame |-> e.frame, duration |-> e.duration, period |-> e.period,
     volume |-> e.volume, noise_period |-> e.noise_period,
     envelope_id |-> e.envelope_id, instrument_id |-> e.instrument_id,
     noise |-> e.noise]

\* TrackEvent.from_dict
TrackEvent_from_dict(data) ==
    TrackEvent([frame |-> Get(data, "frame", 0),
                duration |-> Get(data, "duration", 1),
                period |-> OptGet(data, "period"),
                volume |-> OptGet(data, "volume"),
                noise_period |-> OptGet(data, "noise_period"),
                envelope_id |-> OptGet(data, "envelope_id"),
                instrument_id |-> OptGet(data, "instrument_id"),
                noise |-> OptGet(data, "noise")])

\* Song.to_dict
Song_to_dict(song) ==
    [id |-> song.id, bpm |-> song.bpm, loop |-> song.loop,
     tracks |-> [channel \in DOMAIN song.tracks |->
                    [i \in 1..Len(song.tracks[channel]) |->
                        TrackEvent_to_dict(song.tracks[channel][i])]]]

\* Song.from_dict: a track whose channel is not in CHANNEL_IDS is skipped,
\* events and all.
Song_from_dict(data) ==
    LET kept == DOMAIN data.tracks \cap CHANNEL_IDS
        Made(channel, i) == TrackEvent_from_dict(data.tracks[channel][i])
    IN  IF \E channel \in kept :
               \E i \in 1..Len(data.tracks[channel]) : Made(channel, i).raised # "none"
        THEN [raised |-> "ValueError", value |-> <<>>]
        ELSE [raised |-> "none",
              value |-> [id |-> data.id, bpm |-> data.bpm, loop |-> data.loop,
                         tracks |-> [channel \in kept |->
                                        [i \in 1..Len(data.tracks[channel]) |->
                                            Made(channel, i).value]]]]

\* JamSession.to_dict and JamSession.from_dict
JamSession_to_dict(session) == [id |-> session.id, registers |-> session.registers]
JamSession_from_dict(data) ==
    LET cleaned == validate_registers(data.registers)
    IN  IF cleaned.raised # "none" THEN [raised |-> cleaned.raised, value |-> <<>>]
        ELSE [raised |-> "none",
              value |-> [id |-> data.id, registers |-> cleaned.value]]

\* Project.to_dict and Project.from_dict
Project_to_dict(p) ==
    [jam_sessions |-> [i \in 1..Len(p.jam_sessions) |->
                          JamSession_to_dict(p.jam_sessions[i])],
     songs |-> [i \in 1..Len(p.songs) |-> Song_to_dict(p.songs[i])]]
Project_from_dict(data) ==
    LET sessions == [i \in 1..Len(data.jam_sessions) |->
                        JamSession_from_dict(data.jam_sessions[i])]
        songs == [i \in 1..Len(data.songs) |-> Song_from_dict(data.songs[i])]
    IN  IF \/ \E i \in 1..Len(data.jam_sessions) : sessions[i].raised # "none"
           \/ \E i \in 1..Len(data.songs) : songs[i].raised # "none"
        THEN [raised |-> "ValueError", value |-> <<>>]
        ELSE [raised |-> "none",
              value |-> [jam_sessions |-> [i \in 1..Len(data.jam_sessions) |->
                                              sessions[i].value],
                         songs |-> [i \in 1..Len(data.songs) |-> songs[i].value]]]

MaxSessions == 1
MaxSongs == 1

\* MainWindow._on_new_session: a session named by the user, holding the
\* registers of the live state.
OnNewSession ==
    /\ Len(project.jam_sessions) < MaxSessions
    /\ LET cleaned == validate_registers(PSGState_to_registers(LiveView))
       IN  project' =
             [project EXCEPT !.jam_sessions =
                 Append(@, [id |-> "jam", registers |-> cleaned.value])]
    /\ UNCHANGED <<file, opened>>
    /\ UNCHANGED <<liveVars, regVars, codecVars, audioVars, playerVars, synthVars,
                 moreVars>>

\* MainWindow._on_new_sequence: a song with an empty timeline.
NewSong == [id |-> "song", bpm |-> 120, loop |-> FALSE, tracks |-> [c \in {} |-> <<>>]]
OnNewSequence ==
    /\ Len(project.songs) < MaxSongs
    /\ project' = [project EXCEPT !.songs = Append(@, NewSong)]
    /\ UNCHANGED <<file, opened>>
    /\ UNCHANGED <<liveVars, regVars, codecVars, audioVars, playerVars, synthVars,
                 moreVars>>

\* sorted(frames.items()): the frame numbers in ascending order
RECURSIVE SortedFrames(_)
SortedFrames(frames) ==
    IF frames = {} THEN <<>>
    ELSE LET least == CHOOSE f \in frames : \A g \in frames : f <= g
         IN  <<least>> \o SortedFrames(frames \ {least})

\* The TrackEvent that _on_save_current_sequence builds from the data of a frame.
SavedEvent(frame_num, data) ==
    TrackEvent([frame |-> frame_num,
                duration |-> Get(data, "duration", 1),
                period |-> IF "frequency" \in DOMAIN data
                           THEN <<frequency_to_period(Hz(data.frequency))>>
                           ELSE None,
                volume |-> IF "volume" \in DOMAIN data THEN <<data.volume>> ELSE None,
                noise_period |-> None,
                envelope_id |-> None,
                instrument_id |-> None,
                noise |-> IF "noise_enabled" \in DOMAIN data
                          THEN <<data.noise_enabled>> ELSE None]).value

\* song.tracks as _on_save_current_sequence fills it from timeline_data:
\* every track that holds a frame, whatever its channel id.
SavedTracks ==
    [channel_id \in {c \in DOMAIN timeline_data : DOMAIN timeline_data[c] # {}} |->
        LET order == SortedFrames(DOMAIN timeline_data[channel_id])
        IN  [i \in 1..Len(order) |->
                SavedEvent(order[i], timeline_data[channel_id][order[i]])]]

\* MainWindow._on_save_current_sequence: without a song it creates one; else
\* the timeline becomes the tracks of the selected song.
OnSaveCurrentSequence ==
    /\ IF project.songs = <<>>
       THEN project' = [project EXCEPT !.songs = Append(@, NewSong)]
       ELSE \E index \in 1..Len(project.songs) :
              project' = [project EXCEPT !.songs[index].tracks = SavedTracks]
    /\ UNCHANGED <<file, opened>>
    /\ UNCHANGED <<liveVars, regVars, codecVars, audioVars, playerVars, synthVars,
                 moreVars>>

\* MainWindow.save_project / save_project(project, path): json.dump of
\* project.to_dict().
SaveProject ==
    /\ file' = <<[data |-> Project_to_dict(project), foreign |-> FALSE,
                  source |-> project]>>
    /\ UNCHANGED <<project, opened>>
    /\ UNCHANGED <<liveVars, regVars, codecVars, audioVars, playerVars, synthVars,
                 moreVars>>

\* Project files that were not written by save_project: register values
\* outside 0..255, a register key that is not in REGISTER_KEYS, and events
\* with a negative frame, a duration of 0, or an oversized period and volume.
ForeignRegisters ==
    {("R0" :> 300) @@ ("R7" :> -1), ("R0" :> 10) @@ ("R7" :> 255),
     ("R0" :> 10) @@ ("RX" :> 1)}
ForeignEvents ==
    {[frame |-> -1],
     [frame |-> 0, duration |-> 0],
     [frame |-> 0, duration |-> 1, period |-> <<70000>>, volume |-> <<99>>],
     [frame |-> 2, duration |-> 3, period |-> <<254>>, volume |-> <<12>>]}
ForeignDicts ==
    {[jam_sessions |-> <<[id |-> "jam", registers |-> r]>>,
      songs |-> <<[id |-> "song", bpm |-> 120, loop |-> FALSE,
                   tracks |-> ("A" :> <<e>>)]>>] :
        r \in ForeignRegisters, e \in ForeignEvents}

\* A project file from elsewhere is put in place of the file.
ForeignFile ==
    /\ \E data \in ForeignDicts :
         file' = <<[data |-> data, foreign |-> TRUE, source |-> NewProject]>>
    /\ UNCHANGED <<project, opened>>
    /\ UNCHANGED <<liveVars, regVars, codecVars, audioVars, playerVars, synthVars,
                 moreVars>>

\* MainWindow.open_project: load_project(filename) is Project.from_dict of the
\* dict in the file.  When it raises, the window shows the error and keeps
\* everything; otherwise the project is replaced, current_state becomes a
\* fresh PSGState() and every control emits its state to the channel object
\* its handlers are bound to.
OpenProject ==
    /\ file # <<>>
    /\ ControlIdle
    /\ stream => apc = 0
    /\ LET r == Project_from_dict(file[1].data)
       IN  /\ opened' = [done |-> TRUE, raised |-> r.raised,
                         foreign |-> file[1].foreign,
                         data |-> file[1].data,
                         project |-> IF r.raised = "none" THEN r.value ELSE NewProject,
                         saved |-> file[1].source]
           /\ IF r.raised # "none"
              THEN UNCHANGED <<project, current_state, objs, chan>>
              ELSE LET o == [i \in {psg_state} |-> objs[i]]
                       c == [i \in {HandlerChannel(idx) : idx \in 1..3}
                                   \cup ChannelsOf(objs, psg_state) |-> chan[i]]
                       ids == FreshIds(c, 3, 1)
                       nid == FreshIds(o, 1, 1)[1]
                       emitted == [i \in 1..3 |->
                                     [chan[HandlerChannel(i)] EXCEPT
                                        !.frequency = Hz(InitialControl(i).frequency),
                                        !.volume = InitialControl(i).volume,
                                        !.tone_enabled = InitialControl(i).tone_enabled,
                                        !.noise_enabled = InitialControl(i).noise_enabled]]
                   IN  /\ project' = r.value
                       /\ current_state' = nid
                       /\ objs' = (nid :> PSGState_new(ids[1], ids[2], ids[3])) @@ o
                       /\ chan' = (HandlerChannel(1) :> emitted[1])
                                  @@ (HandlerChannel(2) :> emitted[2])
                                  @@ (HandlerChannel(3) :> emitted[3])
                                  @@ (ids[1] :> DefaultChannel) @@ (ids[2] :> DefaultChannel)
                                  @@ (ids[3] :> DefaultChannel) @@ c
    /\ UNCHANGED <<file, psg_state, snap, ops>>
    /\ UNCHANGED <<regVars, codecVars, audioVars, playerVars, synthVars,
                 moreVars>>

\* self.current_state = <a new PSGState holding v>: the new object and its
\* three channel objects are allocated; the object the driver was given and
\* the channel objects the handlers are bound to stay as they are in c.
InstallState(v, c) ==
    LET o == [i \in {psg_state} |-> objs[i]]
        kept == [i \in {HandlerChannel(idx) : idx \in 1..3}
                       \cup ChannelsOf(objs, psg_state) |-> c[i]]
        ids == FreshIds(kept, 3, 1)
        nid == FreshIds(o, 1, 1)[1]
    IN  /\ current_state' = nid
        /\ objs' = (nid :> PSGState(ids[1], ids[2], ids[3], v.noise_period,
                                    v.envelope_period, v.envelope_shape)) @@ o
        /\ chan' = (ids[1] :> v.channel_a) @@ (ids[2] :> v.channel_b)
                   @@ (ids[3] :> v.channel_c) @@ kept

\* MainWindow._on_load_session: current_state becomes
\* PSGState.from_registers(session.registers); the controls are set with
\* their signals blocked, and the noise slider is set to the noise period
\* the new state already holds.
OnLoadSession ==
    /\ ControlIdle
    /\ stream => apc = 0
    /\ \E index \in 1..Len(project.jam_sessions) :
         InstallState(PSGState_from_registers(project.jam_sessions[index].registers),
                      chan)
    /\ UNCHANGED <<psg_state, snap, ops, project, file, opened>>
    /\ UNCHANGED <<regVars, codecVars, audioVars, playerVars, synthVars, moreVars>>

\* MainWindow.new_project: an empty project, current_state = PSGState(), and
\* _initialize_jam_controls has every control emit its state to the channel
\* object its handlers are bound to.
OnNewProject ==
    /\ ControlIdle
    /\ stream => apc = 0
    /\ project' = NewProject
    /\ InstallState(
           [channel_a |-> DefaultChannel, channel_b |-> DefaultChannel,
            channel_c |-> DefaultChannel, noise_period |-> 1,
            envelope_period |-> 0, envelope_shape |-> 0],
           [i \in DOMAIN chan |->
               IF \E idx \in 1..3 : i = HandlerChannel(idx)
               THEN LET idx == CHOOSE idx \in 1..3 : i = HandlerChannel(idx)
                    IN  [chan[i] EXCEPT
                           !.frequency = Hz(InitialControl(idx).frequency),
                           !.volume = InitialControl(idx).volume,
                           !.tone_enabled = InitialControl(idx).tone_enabled,
                           !.noise_enabled = InitialControl(idx).noise_enabled]
               ELSE chan[i]])
    /\ UNCHANGED <<psg_state, snap, ops, file, opened>>
    /\ UNCHANGED <<regVars, codecVars, audioVars, playerVars, synthVars, moreVars>>

NextStore ==
    \/ OnFrameApplied
    \/ OnLoadSession
    \/ OnNewProject
    \/ OnNewSession
    \/ OnNewSequence
    \/ OnSaveCurrentSequence
    \/ SaveProject
    \/ ForeignFile
    \/ OpenProject

SpecStore == Init /\ [][NextStore]_vars

\* C19: loading a saved project never fails because a number is out of range:
\* for every project file whose register values lie outside 0..255 or whose
\* events carry a negative frame, a duration of 0 or less, or an oversized
\* period or volume, load_project returns a project and does not raise.
KnownRegisterKeys(data) ==
    \A i \in 1..Len(data.jam_sessions) :
        DOMAIN data.jam_sessions[i].registers \subseteq REGISTER_KEYS
C19_LoadNeverRaises ==
    (opened.done /\ KnownRegisterKeys(opened.data)) => opened.raised = "none"

\* The tracks of a song, seen as a function on all five timeline channel ids:
\* a channel without a track has no events.
TrackOf(song, channel) ==
    IF channel \in DOMAIN song.tracks THEN song.tracks[channel] ELSE <<>>

\* C20: opening a file written by save_project gives back every jam session's
\* register map and, for every song, the track of each channel the sequencer
\* saves (A, B, C, N and E) with every event unchanged and in the same order.
C20_SaveLoadRoundTrip ==
    (opened.done /\ ~opened.foreign) =>
        /\ opened.raised = "none"
        /\ Len(opened.project.jam_sessions) = Len(opened.saved.jam_sessions)
        /\ \A i \in 1..Len(opened.saved.jam_sessions) :
             opened.project.jam_sessions[i].registers
                 = opened.saved.jam_sessions[i].registers
        /\ Len(opened.project.songs) = Len(opened.saved.songs)
        /\ \A i \in 1..Len(opened.saved.songs) :
             \A channel \in {"A", "B", "C", "N", "E"} :
                 TrackOf(opened.project.songs[i], channel)
                     = TrackOf(opened.saved.songs[i], channel)

\* C21: a JamSession whose registers name a key outside R0..R15 is refused
\* with ValueError, by the constructor, by from_dict and by load_project;
\* every JamSession of the project in the window and of a project that was
\* loaded holds only keys of R0..R15, each with a value in 0..255.
CleanSessions(p) ==
    \A i \in 1..Len(p.jam_sessions) :
        /\ DOMAIN p.jam_sessions[i].registers \subseteq REGISTER_KEYS
        /\ \A key \in DOMAIN p.jam_sessions[i].registers :
             p.jam_sessions[i].registers[key] \in 0..255
MaxUpdates == 2

\* for key, value in kwargs.items(): KeyError for a key that is not in
\* self.registers, which ends the loop; else the value is stored clamped.
RECURSIVE ShadowState_update_unclamped(_, _)
ShadowState_update_unclamped(registers, kwargs) ==
    IF kwargs = <<>> THEN [raised |-> "none", registers |-> registers]
    ELSE LET key == Head(kwargs)[1]
             value == Head(kwargs)[2]
         IN  IF key \notin DOMAIN registers
             THEN [raised |-> "KeyError: Unknown register", registers |-> registers]
             ELSE ShadowState_update_unclamped([registers EXCEPT ![key] = value],
                                               Tail(kwargs))
RECURSIVE ShadowState_update(_, _)
ShadowState_update(registers, kwargs) ==
    IF kwargs = <<>> THEN [raised |-> "none", registers |-> registers]
    ELSE LET key == Head(kwargs)[1]
             value == Head(kwargs)[2]
         IN  IF key \notin DOMAIN registers
             THEN [raised |-> "KeyError: Unknown register", registers |-> registers]
             ELSE ShadowState_update(
                      [registers EXCEPT ![key] = ClampInt(0, 255, value)],
                      Tail(kwargs))

\* The keyword arguments of a call: one or two keywords, no keyword twice.
UpdateKeys == {"R0", "R8", "R99"}
UpdateValues == {-1, 7, 260}
UpdateKwargs ==
    {<<<<k, v>>>> : k \in UpdateKeys, v \in UpdateValues}
    \cup {kwargs \in {<<<<k1, v1>>, <<k2, v2>>>> :
                          k1 \in UpdateKeys, k2 \in UpdateKeys,
                          v1 \in UpdateValues, v2 \in UpdateValues} :
            kwargs[1][1] # kwargs[2][1]}

\* state.update(**kwargs)
Update ==
    /\ calls < MaxUpdates
    /\ \E kwargs \in UpdateKwargs :
         \E r \in {ShadowState_update(shadow, kwargs)} :
           /\ shadow' = r.registers
           /\ upd' = [called |-> TRUE, kwargs |-> kwargs, before |-> shadow,
                      raised |-> r.raised]
    /\ calls' = calls + 1
    /\ UNCHANGED <<liveVars, regVars, codecVars, audioVars, playerVars, synthVars,
                   storeVars, driverVars, splitVars>>

NextShadow == Update

SpecShadow == Init /\ [][NextShadow]_vars

Named(kwargs) == {kwargs[i][1] : i \in 1..Len(kwargs)}

C30_UpdateAllOrNothing ==
    (upd.called /\ upd.raised # "none") => shadow = upd.before

\* What the loop of update does instead: a call that raises KeyError has stored
\* the clamped value of every register named before the unknown key and has
\* left every other register as it was before the call; nothing changes when
\* the unknown key comes first.
FirstUnknown(kwargs) ==
    CHOOSE j \in 1..Len(kwargs) :
        /\ kwargs[j][1] \notin REGISTER_NAMES
        /\ \A i \in 1..(j - 1) : kwargs[i][1] \in REGISTER_NAMES
UpdateStopsAtUnknown ==
    (upd.called /\ upd.raised # "none") =>
        \A name \in REGISTER_NAMES :
            LET earlier == {i \in 1..(FirstUnknown(upd.kwargs) - 1) :
                               upd.kwargs[i][1] = name}
            IN  IF earlier = {} THEN shadow[name] = upd.before[name]
                ELSE \A i \in earlier :
                         shadow[name] = ClampInt(0, 255, upd.kwargs[i][2])

\* ---------------------------------------------------------------------------
\* The two drivers as their caller sees them
\* ---------------------------------------------------------------------------
\* The driver of the last call is playing: PygamePSGPlayer.playing, or
\* LivePSGStream.stream is not None.
DriverPlaying == IF last.driver = "pygame" THEN playing ELSE stream

\* C23: start() of either driver returns False when its backend is missing
\* or the device fails, and the driver is then not playing; it returns True
\* when playback started; while playing it returns True and opens no second
\* stream or update thread; after stop() has returned the driver is not
\* playing, so that start() can start it again.
C23_StartStopContract ==
    (last.op # "none" /\ ctl = "idle") =>
        /\ last.op = "start" =>
             /\ last.returned \in {"True", "False"}
             /\ ~available[last.driver] => last.returned = "False"
             /\ last.returned = "False" => ~DriverPlaying
             /\ last.returned = "True" => DriverPlaying
             /\ last.was_playing /\ available[last.driver] =>
                  last.returned = "True" /\ ~last.created
        /\ last.op = "stop" => ~DriverPlaying

\* ---------------------------------------------------------------------------
\* One chip state for the window and the driver
\* ---------------------------------------------------------------------------
\* C24: after any sequence of UI operations the PSGState object the audio
\* driver snapshots is the object MainWindow.current_state refers to, and
\* its channels are the channel objects the control handlers write to.
C24_DriverReadsCurrentState ==
    /\ psg_state = current_state
    /\ \A idx \in 1..3 :
         <<objs[current_state].channel_a, objs[current_state].channel_b,
           objs[current_state].channel_c>>[idx] = HandlerChannel(idx)

\* ---------------------------------------------------------------------------
\* The noise generator across render_buffer calls
\* ---------------------------------------------------------------------------
\* One advance of the 17-bit register as the specification words it: shift
\* right by one, bit 0 XOR bit 3 of the old value fed into bit 16.
AdvanceOnce(old) ==
    (old \div 2) + 65536 * (((old % 2) + ((old \div 8) % 2)) % 2)
RECURSIVE Advance(_, _)
Advance(old, k) == IF k = 0 THEN old ELSE Advance(AdvanceOnce(old), k - 1)

\* max(1, floor(sample_rate / (CLOCK_HZ / (32 * p))))
BlockLength(p) ==
    IF (44100 * 32 * p) \div 3579545 < 1 THEN 1 ELSE (44100 * 32 * p) \div 3579545

C27_LfsrStaysInRange ==
    /\ synth.lfsr \in 1..131071
    /\ (renders > 0 /\ rb.state.noise_period = 0) =>
         /\ synth.lfsr = rb.before.lfsr
         /\ synth.lfsr_output = rb.before.lfsr_output

\* A render with noise period 0 after a render that had moved the LFSR.
C27_Witness ==
    /\ renders = 2
    /\ Returned
    /\ rb.state.noise_period = 0
    /\ rb.before.lfsr # 1
    /\ synth.lfsr = rb.before.lfsr

\* ---------------------------------------------------------------------------
\* One PSGState rendered by a new PSGSynthesizer in two buffers of n1 and n2
\* samples, and by another new PSGSynthesizer in one buffer of n1 + n2.
\* ---------------------------------------------------------------------------
SplitStates ==
    { PSGState(a, MutedChannel, c, n, 0, 0) :
        a \in {MutedChannel, ToneChannel},
        c \in {MutedChannel, ToneNoiseChannel, NoiseChannel},
        n \in {0, 1, 6} }
MaxSplit == 3
SplitCounts == ((1..MaxSplit) \X (1..MaxSplit)) \cup {<<17, 17>>}

InitSplit ==
    /\ InitWindow
    /\ ops = 0
    /\ IdleRegs /\ IdleCodec /\ IdleAudio /\ IdlePlayer /\ IdleSynth /\ IdleStore
    /\ IdleShadow /\ IdleDriver
    /\ \E state \in SplitStates, counts \in SplitCounts :
         split = [NoSplit EXCEPT !.pc = "new", !.state = state,
                                 !.n1 = counts[1], !.n2 = counts[2]]

\* synth = PSGSynthesizer(); first = synth.render_buffer(n1, state)
RenderFirst ==
    /\ split.pc = "new"
    /\ \E r \in {render_buffer(split.n1, split.state, NewSynthesizer)} :
         split' = [split EXCEPT !.pc = "first", !.first = r]
    /\ UNCHANGED <<liveVars, regVars, codecVars, audioVars, playerVars, synthVars,
                   storeVars, shadowVars, driverVars>>

\* second = synth.render_buffer(n2, state), on the same synthesizer
RenderSecond ==
    /\ split.pc = "first"
    /\ \E r \in {render_buffer(split.n2, split.state, split.first.synth)} :
         split' = [split EXCEPT !.pc = "second", !.second = r]
    /\ UNCHANGED <<liveVars, regVars, codecVars, audioVars, playerVars, synthVars,
                   storeVars, shadowVars, driverVars>>

\* whole = PSGSynthesizer().render_buffer(n1 + n2, state)
RenderWhole ==
    /\ split.pc = "second"
    /\ \E r \in {render_buffer(split.n1 + split.n2, split.state, NewSynthesizer)} :
         split' = [split EXCEPT !.pc = "whole", !.whole = r]
    /\ UNCHANGED <<liveVars, regVars, codecVars, audioVars, playerVars, synthVars,
                   storeVars, shadowVars, driverVars>>

NextSplit ==
    \/ RenderFirst
    \/ RenderSecond
    \/ RenderWhole

SpecSplit == InitSplit /\ [][NextSplit]_vars

Compared == split.pc = "whole"

NoBufferRescaled ==
    /\ ~RatLess(<<1, 1>>, Peak(split.first.mix))
    /\ ~RatLess(<<1, 1>>, Peak(split.second.mix))
    /\ ~RatLess(<<1, 1>>, Peak(split.whole.mix))
NoiseBlocksAligned ==
    \/ split.state.noise_period = 0
    \/ split.n1 % BlockLength(split.state.noise_period) = 0

PeriodMap(p) ==
    LET q == MAX_PERIOD + 1 - p
        r == ((p * 1234) % MAX_PERIOD) + 1
    IN  [k \in REGISTER_KEYS |->
            CASE k = "R0" -> p % 256
              [] k = "R1" -> p \div 256
              [] k = "R2" -> q % 256
              [] k = "R3" -> q \div 256
              [] k = "R4" -> r % 256
              [] k = "R5" -> r \div 256
              [] k = "R6" -> (p * 3) % 256
              [] k = "R7" -> (p * 5) % 256
              [] k = "R10" -> (p * 7) % 256
              [] k = "R11" -> (p * 11) % 256
              [] k = "R12" -> (p * 13) % 256
              [] k = "R13" -> (p * 17) % 256
              [] k = "R14" -> (p \div 16) % 256
              [] k = "R15" -> (p * 19) % 256
              [] OTHER -> 0]
PeriodMaps == {PeriodMap(p) : p \in MIN_PERIOD..MAX_PERIOD}

InitResave ==
    /\ rpc = "map" /\ st = DefaultState /\ regs \in PeriodMaps
    /\ parts = <<>>
    /\ back = DefaultState
    /\ saved = <<>>
    /\ IdleLive /\ IdleCodec /\ IdleAudio /\ IdlePlayer /\ IdleSynth /\ IdleStore /\ IdleMore

\* saved = back.to_registers(), back being the state from_registers returned
Resave ==
    /\ rpc = "loaded"
    /\ saved' = PSGState_to_registers(back)
    /\ rpc' = "resaved"
    /\ UNCHANGED <<st, parts, regs, back, liveVars, codecVars, audioVars, restVars>>

NextResave == FromRegisters \/ Resave

SpecResave == InitResave /\ [][NextResave]_vars

\* the 12-bit tone period a map holds in its registers fine and coarse
PeriodOf(m, fine, coarse) == (m[coarse] % 16) * 256 + m[fine]

\* the registers of the claim C28 other than the tone periods agree
OtherRegistersKept(m, n) ==
    /\ n["R6"] % 32 = m["R6"] % 32
    /\ n["R7"] % 64 = m["R7"] % 64
    /\ \A k \in {"R10", "R11", "R12"} : n[k] % 32 = m[k] % 32
    /\ n["R13"] = m["R13"] /\ n["R14"] = m["R14"]
    /\ n["R15"] % 16 = m["R15"] % 16

PeriodPairs == {<<"R0", "R1">>, <<"R2", "R3">>, <<"R4", "R5">>}

LowestKeptPeriod == frequency_to_period(Hz(FREQ_MAX))

MaxPlayFrame == 3

\* a timeline with frame data on the tracks A, B and N at the frames given
Timeline(fa, fb, fn) ==
    [t \in {"A", "B", "C", "N", "E"} |->
        IF t = "A" THEN [f \in fa |-> CHOOSE d \in EditorData(0) : TRUE]
        ELSE IF t = "B" THEN [f \in fb |-> CHOOSE d \in EditorData(1) : TRUE]
        ELSE IF t = "N" THEN [f \in fn |-> CHOOSE d \in EditorData(3) : TRUE]
        ELSE NoFrames]

\* Timelines the editor can have built before Play: empty, or with the
\* highest frame 0 .. MaxPlayFrame on one track or another
PlaybackTimelines ==
    {Timeline(fa, fb, fn) :
        fa \in {{}, {0}, {0, 2}},
        fb \in {{}, {MaxPlayFrame}},
        fn \in {{}, {1}}}

InitPlayback ==
    /\ InitWindow
    /\ ops = 0
    /\ IdleRegs /\ IdleCodec /\ IdlePlayer /\ IdleSynth /\ IdleStore /\ IdleMore
    /\ timeline_data \in PlaybackTimelines
    /\ current_frame = 0
    /\ is_playing = FALSE
    /\ playback_loop = FALSE
    /\ timer_active = FALSE
    /\ btn_frame_stop = FALSE
    /\ stream = FALSE
    /\ tick = IdleTick
    /\ apc = 0
    /\ acopy = <<>>
    /\ views = {}
    /\ edits = MaxEdits

\* _advance_frame, from the timeout of the timer to its return
Tick == TickBegin \/ TickStore \/ TickAdvance

NextPlayback ==
    \/ OnFrameLoopToggled
    \/ OnFramePlay
    \/ OnFramePause
    \/ OnFrameStop
    \/ TickBegin
    \/ TickStore
    \/ TickAdvance

SpecPlayback == InitPlayback /\ [][NextPlayback]_vars

\* the timer fires again 16 ms after each timeout while it is active, and
\* the control thread runs _advance_frame to its end
FairPlayback == SpecPlayback /\ WF_vars(Tick)

\* the highest frame number any track of the timeline holds, 0 if none
HighestPopulated ==
    LET all == UNION {DOMAIN timeline_data[t] : t \in DOMAIN timeline_data}
    IN  IF all = {} THEN 0 ELSE CHOOSE m \in all : \A f \in all : f <= m

\* _advance_frame has made its stores and returns with this step
TickReturns == tick.pc = "apply" /\ tick'.pc = "idle"

Stopped == ~is_playing /\ current_frame = 0 /\ ~timer_active

\* C29: with the loop disabled, playback that has started stops by itself:
\* the tick that applies the highest populated frame leaves is_playing
\* False, current_frame 0 and the timer stopped; every tick before it adds
\* exactly 1 to current_frame, which never exceeds the highest populated
\* frame.  With the loop enabled that tick wraps current_frame to 0 and
\* playback goes on.  Pause keeps current_frame, Stop resets it to 0.
C29_PlaybackTerminates ==
    /\ [](current_frame \in 0..HighestPopulated)
    /\ (is_playing /\ ~playback_loop) ~> (~is_playing \/ playback_loop)
    /\ [][TickReturns =>
            IF current_frame < HighestPopulated
            THEN /\ current_frame' = current_frame + 1
                 /\ is_playing' /\ timer_active'
            ELSE IF playback_loop
            THEN current_frame' = 0 /\ is_playing' /\ timer_active'
            ELSE Stopped']_vars
    /\ [][~TickReturns => (is_playing' => is_playing \/ OnFramePlay)]_vars
    /\ [][OnFramePause => current_frame' = current_frame /\ ~is_playing']_vars
    /\ [][OnFrameStop => Stopped']_vars
    /\ [][current_frame' # current_frame => TickReturns \/ OnFrameStop]_vars

\* Playback without the loop has stopped by itself: frame 3 on track B, the
\* highest populated frame, has been applied to the state the driver reads
C29_Witness ==
    /\ HighestPopulated = MaxPlayFrame
    /\ ~playback_loop
    /\ Stopped
    /\ ~btn_frame_stop
    /\ chan[objs[psg_state].channel_b].frequency = Hz(880)

====
